---- MODULE Spec2Model ----
(***************************************************************************)
(* Model of the universal MCP client (src/client/client.py): the           *)
(* interactive chat_loop with its `use` switch command, and process_query  *)
(* with its two provider paths (_process_anthropic_query and               *)
(* _process_openai_query).  External collaborators (the provider API and   *)
(* the tool-hosting session) answer nondeterministically: every call       *)
(* either returns one of a bounded set of values or raises.                *)
(***************************************************************************)
EXTENDS Integers, Sequences, FiniteSets, TLC

(* ------------------------------------------------------------------ *)
(* Bounds of the model                                                 *)
(* ------------------------------------------------------------------ *)

\* longest list of content blocks / tool_calls in a first provider response
MaxBlocks == 2
\* longest list of content blocks in a follow-up provider response
MaxFollow == 2

(* ------------------------------------------------------------------ *)
(* Values                                                              *)
(* ------------------------------------------------------------------ *)

\* Python's None
None == "None"

\* ModelProvider enum
ANTHROPIC == "anthropic"

OPENAI == "openai"

ModelProvider == {ANTHROPIC, OPENAI}

\* the static name -> vendor model id maps, as sets of <<key, value>>
ANTHROPIC_MODELS ==
    { <<"claude-3-opus", "claude-3-opus-latest">>,
      <<"claude-3-sonnet", "claude-3-7-sonnet-latest">>,
      <<"claude-3-haiku", "claude-3-5-haiku-latest">> }

OPENAI_MODELS ==
    { <<"gpt-4-turbo", "gpt-4-turbo">>,
      <<"gpt-4", "gpt-4o">>,
      <<"gpt-3.5-turbo", "gpt-3.5-turbo">> }

\* dict.get(key, default) and `key in dict`
DictHas(d, k) == \E kv \in d : kv[1] = k

DictGet(d, k, default) ==
    IF DictHas(d, k) THEN (CHOOSE kv \in d : kv[1] = k)[2] ELSE default

\* Python truthiness of an optional string: None and "" are falsy
Truthy(s) == s # None /\ s # ""

\* the tools the tool-hosting session advertises (list_tools)
ServerTools ==
    << [name |-> "get_weather", description |-> "Get the weather", inputSchema |-> "schema_weather"],
       [name |-> "get_crypto_price", description |-> None, inputSchema |-> "schema_crypto"] >>

ToolNames == { ServerTools[k].name : k \in 1..Len(ServerTools) }

\* texts a provider may return in a first response and in a follow-up response
Texts == {"Let me check."}

FollowTexts == {"It is sunny in Paris."}

\* str(e) of an exception raised by an external call
Causes == {"boom"}

\* the JSON argument strings a tool call of the OpenAI format may carry
GoodArgs == "{\"city\": \"Paris\"}"

BadArgs == "{\"city\": "

ArgStrings == {GoodArgs, BadArgs}

\* json.loads: the decoded mapping, or a JSONDecodeError
JsonLoads(s) ==
    IF s = GoodArgs THEN [ok |-> TRUE, value |-> "city=Paris"]
    ELSE [ok |-> FALSE, value |-> None]

\* the `input` mapping of a tool_use block (already structured)
ToolInput == "city=Paris"

(* ------------------------------------------------------------------ *)
(* Input lines of chat_loop, as token sequences                        *)
(* ------------------------------------------------------------------ *)

InputLines ==
    { <<"quit">>,
      <<"What is the weather in Paris?">>,
      <<"use">>,
      <<"use", "anthropic">>,
      <<"use", "openai">>,
      <<"use", "OpenAI", ":", "gpt-4">>,
      <<"use", "anthropic", ":", "claude-3-opus">>,
      <<"use", "openai", ":", "my-model">>,
      <<"use", "gemini">>,
      <<"use", "gemini", ":", "gpt-4">> }

\* str.lower on a token
Lower(t) ==
    CASE t = "OpenAI" -> "openai"
      [] t = "QUIT" -> "quit"
      [] t = "USE" -> "use"
      [] OTHER -> t

\* query.lower() == 'quit'
IsQuit(line) == Len(line) = 1 /\ Lower(line[1]) = "quit"

\* query.lower().startswith('use '): the stripped line has text after "use "
IsUse(line) == Len(line) >= 2 /\ Lower(line[1]) = "use"

\* query[4:].strip().split(':') : one part per colon-separated field; a field
\* of the modelled lines holds at most one token, an empty field is ""
RECURSIVE SplitColon(_)
SplitColon(toks) ==
    IF toks = <<>> THEN << "" >>
    ELSE IF Head(toks) = ":" THEN << "" >> \o SplitColon(Tail(toks))
    ELSE << Head(toks) >> \o Tail(SplitColon(Tail(toks)))

UseParts(line) == SplitColon(Tail(line))

(* ------------------------------------------------------------------ *)
(* Conversation turns, content blocks, output lines                    *)
(* ------------------------------------------------------------------ *)

\* a content block of the Anthropic format
TextBlock(t) == [type |-> "text", text |-> t, name |-> None, id |-> 0, input |-> None]

ToolUseBlock(n, i) == [type |-> "tool_use", text |-> None, name |-> n, id |-> i, input |-> ToolInput]

\* an entry of message.tool_calls of the OpenAI format
ToolCall(n, i, a) == [id |-> i, name |-> n, arguments |-> a]

\* messages of the conversation; kind tells the shapes apart
\*   "query"       {"role": "user", "content": query}
\*   "amc"         {"role": "assistant", "content": assistant_message_content}
\*                 (holds the list object itself, not a copy of it)
\*   "blocks"      the same message with the list's contents written out
\*   "tool_result" {"role": "user", "content": [{"type": "tool_result", ...}]}
\*   "tool_calls"  {"role": "assistant", "content": None, "tool_calls": [...]}
\*   "tool"        {"role": "tool", "tool_call_id": id, "content": text}
Msg(role, kind, id, text, blocks) ==
    [role |-> role, kind |-> kind, id |-> id, text |-> text, blocks |-> blocks]

UserMsg(q) == Msg("user", "query", 0, q, <<>>)

\* a line of final_text
Line(kind, name, text) == [kind |-> kind, name |-> name, text |-> text]

\* "\n".join(xs): a string is modelled as the sequence of its lines, so the
\* join of no strings is the empty string, one empty line, like the join of [""]
JoinLines(xs, empty) == IF xs = <<>> THEN << empty >> ELSE xs

\* "\n".join(final_text)
Join(lines) == JoinLines(lines, Line("text", None, << "" >>))

\* the parts of a tool result's content that have a text attribute; a part
\* is its text, or "image" for a part without text
RECURSIVE TextParts(_)
TextParts(parts) ==
    IF parts = <<>> THEN <<>>
    ELSE IF Head(parts) = "image" THEN TextParts(Tail(parts))
    ELSE << Head(parts) >> \o TextParts(Tail(parts))

\* (every part joined, a part without text included)
JoinPartsAll(parts) == JoinLines(parts, "")

\* "\n".join(c.text for c in result.content if hasattr(c, 'text'))
JoinParts(parts) == JoinLines(TextParts(parts), "")

\* results call_tool may return: lists of content parts
ToolResults == { << "Weather in Paris: sunny", "image", "18C" >> }

(* ------------------------------------------------------------------ *)
(* Provider responses                                                  *)
(* ------------------------------------------------------------------ *)

Shapes == {"text"} \cup ToolNames

\* content of an Anthropic response: blocks whose tool_use ids are distinct
AnthropicContent(f, base) ==
    [k \in 1..Len(f) |->
        IF f[k] = "text" THEN TextBlock(CHOOSE t \in (IF base = 0 THEN Texts ELSE FollowTexts) : TRUE)
        ELSE ToolUseBlock(f[k], base + k)]

ShapeSeqs(n) == UNION { [1..m -> Shapes] : m \in 0..n }

\* first responses of the Anthropic format
AnthropicFirst == { AnthropicContent(f, 0) : f \in ShapeSeqs(MaxBlocks) }

\* follow-up responses of the Anthropic format (ids apart from the first's)
AnthropicFollow == { AnthropicContent(f, MaxBlocks) : f \in UNION { [1..m -> {"text", "get_crypto_price"}] : m \in 0..MaxFollow } }

\* message of an OpenAI response: optional content and a tool_calls list
OpenAICalls(f, base) == [k \in 1..Len(f) |-> ToolCall(f[k][1], base + k, f[k][2])]

CallSeqs(n) == UNION { [1..m -> ToolNames \X ArgStrings] : m \in 0..n }

OpenAIFirst ==
    { [content |-> c, tool_calls |-> OpenAICalls(f, 0)] :
        c \in Texts \cup {None}, f \in CallSeqs(MaxBlocks) }

\* the follow-up request carries no tools, so its response holds no tool_calls
OpenAIFollow == { [content |-> c, tool_calls |-> <<>>] : c \in FollowTexts \cup {None} }

(* ------------------------------------------------------------------ *)
(* State                                                               *)
(* ------------------------------------------------------------------ *)

VARIABLES
    \* fields of the UniversalMCPClient object
    provider, model_name, full_model_name, anthropic, openai, session, exit_stack,
    \* the async contexts entered on exit_stack, in the order entered
    stack,
    \* the environment: the providers whose API key variable is set
    api_keys,
    \* whether exit_stack.aclose() has run
    closed,
    \* the status the process of main() exited with: << n >>, and <<>> while it runs
    exit_status,
    \* the number of process_query calls a caller of the class has made
    calls,
    \* chat_loop / main: position, the line read, the last thing printed
    pc, query, stdout,
    \* locals of _process_anthropic_query / _process_openai_query
    \* (iterating is the list the for statement walks, idx its position)
    messages, assistant_message_content, final_text, response, iterating, idx, result,
    \* tool_response.tools: the tools list_tools returned to process_query
    tool_response,
    \* what the outside saw during the current query: the messages, model,
    \* provider client and tools of the latest provider request, the outcome of
    \* every provider call, and every call_tool invocation
    wire, wire_model, wire_client, wire_tools, provider_log, tool_log,
    \* whether standard input has reached its end
    eof,
    \* the web UI (src/ui/app.py): st.session_state, the UniversalMCPClient
    \* objects it has constructed, the background threads that are running,
    \* the buttons of the page as the latest script run rendered them, and the
    \* number of button clicks so far
    session_state, clients, workers, page, clicks

client_vars == << provider, model_name, full_model_name, anthropic, openai, session, exit_stack, stack >>

query_vars == << messages, assistant_message_content, final_text, response, iterating, idx, result, tool_response,
                 wire, wire_model, wire_client, wire_tools, provider_log, tool_log >>

ui_vars == << session_state, clients, workers, page, clicks >>

vars == << provider, model_name, full_model_name, anthropic, openai, session, exit_stack, stack,
           api_keys, ui_vars, closed, exit_status, calls, eof, pc, query, stdout,
           messages, assistant_message_content, final_text, response, iterating, idx, result, tool_response,
           wire, wire_model, wire_client, wire_tools, provider_log, tool_log >>

(* ------------------------------------------------------------------ *)
(* UniversalMCPClient.__init__                                         *)
(* ------------------------------------------------------------------ *)

\* a provider client object not identical to any object the client holds
FreshObject(live) == CHOOSE o \in {"llm_client_1", "llm_client_2", "llm_client_3"} : o \notin live

\* (a name that is no key of the map gets no identifier)
FullModelNameKnownOnly(models, name) ==
    IF DictHas(models, name) THEN DictGet(models, name, name) ELSE None

\* if self.model_name in MODELS: full_model_name = MODELS[self.model_name]
\* else: full_model_name = self.model_name
FullModelName(models, name) ==
    IF DictHas(models, name) THEN DictGet(models, name, name) ELSE name

\* the constructor: raises when the provider's API key is missing, and
\* otherwise sets the default model and maps the model name
Construct(p, m, keys, live) ==
    IF p \notin keys THEN [ok |-> FALSE]
    ELSE LET name == IF Truthy(m) THEN m
                     ELSE IF p = ANTHROPIC THEN "claude-3-sonnet" ELSE "gpt-4-turbo"
             models == IF p = ANTHROPIC THEN ANTHROPIC_MODELS ELSE OPENAI_MODELS
         IN  [ok |-> TRUE,
              provider |-> p,
              model_name |-> name,
              full_model_name |-> FullModelName(models, name),
              anthropic |-> IF p = ANTHROPIC THEN FreshObject(live) ELSE None,
              openai |-> IF p = OPENAI THEN FreshObject(live) ELSE None]

\* the --model arguments main() is started with
ModelArgs == {None, "gpt-4"}

\* no query is being processed: the locals of process_query do not exist
NoResponse == [kind |-> "none", content |-> <<>>, text |-> None, tool_calls |-> <<>>]

NoQuery ==
    /\ messages = <<>>
    /\ assistant_message_content = <<>>
    /\ final_text = <<>>
    /\ response = NoResponse
    /\ iterating = <<>>
    /\ idx = 0
    /\ result = <<>>
    /\ wire = <<>>
    /\ tool_response = <<>>
    /\ wire_model = None
    /\ wire_client = None
    /\ wire_tools = <<>>
    /\ provider_log = <<>>
    /\ tool_log = <<>>

NoQueryNext ==
    /\ messages' = <<>>
    /\ assistant_message_content' = <<>>
    /\ final_text' = <<>>
    /\ response' = NoResponse
    /\ iterating' = <<>>
    /\ idx' = 0
    /\ result' = <<>>
    /\ wire' = <<>>
    /\ tool_response' = <<>>
    /\ wire_model' = None
    /\ wire_client' = None
    /\ wire_tools' = <<>>
    /\ provider_log' = <<>>
    /\ tool_log' = <<>>

(* ------------------------------------------------------------------ *)
(* connect_to_server, cleanup                                          *)
(* ------------------------------------------------------------------ *)

\* the server script paths a caller may pass; a path is the sequence of its
\* characters
ScriptPaths ==
    { << "s", ".", "p", "y" >>, << "s", ".", "j", "s" >>, << "s", ".", "s", "h" >>, << "p", "y" >> }

\* s.endswith(suffix)
EndsWith(s, suffix) ==
    /\ Len(s) >= Len(suffix)
    /\ SubSeq(s, Len(s) - Len(suffix) + 1, Len(s)) = suffix

\* (no check of the extension)
ScriptAcceptedAlways(path) == TRUE

\* is_python or is_js
ScriptAccepted(path) == EndsWith(path, << ".", "p", "y" >>) \/ EndsWith(path, << ".", "j", "s" >>)

\* how far connect_to_server gets with an accepted path: stdio_client fails to
\* start, or the session is created and initialize() / list_tools() raises,
\* or all of it succeeds
ConnectOutcomes == {"transport_fails", "handshake_fails", "connected"}

ConnectRaises(path, outcome) == ~ScriptAccepted(path) \/ outcome # "connected"

\* what connect_to_server does to the client: the ValueError of a rejected
\* path and a failure of stdio_client come before anything is entered on
\* exit_stack; otherwise the transport and the session are entered and
\* self.session is assigned, before initialize() is awaited
ConnectToServer(path, outcome) ==
    IF ~ScriptAccepted(path) \/ outcome = "transport_fails"
    THEN UNCHANGED << session, stack >>
    ELSE /\ session' = "session_1"
         /\ stack' = stack \o << "stdio_client", "ClientSession" >>

\* str(e) of what connect_to_server raised
ConnectError(path, outcome) == IF ~ScriptAccepted(path) THEN "ValueError" ELSE outcome

\* cleanup(): exit_stack.aclose() leaves every context entered
Cleanup ==
    /\ closed' = TRUE
    /\ stack' = <<>>

(* ------------------------------------------------------------------ *)
(* main                                                                *)
(* ------------------------------------------------------------------ *)

Out(kind, body) == [kind |-> kind, body |-> body]

\* initialize_session_state()
InitialSessionState ==
    [messages |-> <<>>, is_connected |-> FALSE, client |-> 0, available_tools |-> <<>>,
     processing |-> FALSE, connection_error |-> None]

\* the web UI has not run: no client object of its own, no thread, no page
NoUi ==
    /\ session_state = InitialSessionState
    /\ clients = <<>>
    /\ workers = {}
    /\ page = [connect |-> FALSE, switch |-> FALSE, send |-> FALSE]
    /\ clicks = 0

\* the process has started main(); no client exists
Init ==
    /\ api_keys \in SUBSET ModelProvider
    /\ provider = None
    /\ model_name = None
    /\ full_model_name = None
    /\ anthropic = None
    /\ openai = None
    /\ session = None
    /\ exit_stack = None
    /\ stack = <<>>
    /\ closed = FALSE
    /\ exit_status = <<>>
    /\ calls = 0
    /\ eof = FALSE
    /\ NoUi
    /\ pc = "main"
    /\ query = <<>>
    /\ stdout = Out("none", <<>>)
    /\ NoQuery

\* the fields __init__ assigns
Constructed(c) ==
    /\ provider' = c.provider
    /\ model_name' = c.model_name
    /\ full_model_name' = c.full_model_name
    /\ anthropic' = c.anthropic
    /\ openai' = c.openai
    /\ session' = None
    /\ exit_stack' = "exit_stack_1"

\* parser.parse_args() rejects the command line: usage is printed and the
\* process exits with status 2
MainUsageError ==
    /\ pc = "main"
    /\ stdout' = Out("usage", <<>>)
    /\ exit_status' = << 2 >>
    /\ pc' = "done"
    /\ UNCHANGED << client_vars, api_keys, ui_vars, closed, calls, eof, query, query_vars >>

\* client = UniversalMCPClient(provider=provider, model_name=args.model)
MainConstruct ==
    /\ pc = "main"
    /\ \E p \in ModelProvider, m \in ModelArgs :
         LET c == Construct(p, m, api_keys, {})
         IN  /\ c.ok
             /\ Constructed(c)
    /\ pc' = "connect"
    /\ UNCHANGED << stack, api_keys, ui_vars, closed, exit_status, calls, eof, query, stdout, query_vars >>

\* the constructor raises: main() prints the error; `client` is not bound
MainConstructFails ==
    /\ pc = "main"
    /\ \E p \in ModelProvider, m \in ModelArgs : ~Construct(p, m, api_keys, {}).ok
    /\ stdout' = Out("fatal", << "ValueError" >>)
    /\ pc' = "exited"
    /\ UNCHANGED << client_vars, api_keys, ui_vars, closed, exit_status, calls, eof, query, query_vars >>

\* await client.connect_to_server(args.server_script) returns, and chat_loop
\* prints its banner
MainConnect ==
    /\ pc = "connect"
    /\ \E path \in ScriptPaths, outcome \in ConnectOutcomes :
         /\ ~ConnectRaises(path, outcome)
         /\ ConnectToServer(path, outcome)
    /\ stdout' = Out("banner", <<>>)
    /\ pc' = "input"
    /\ UNCHANGED << provider, model_name, full_model_name, anthropic, openai, exit_stack,
                    api_keys, ui_vars, closed, exit_status, calls, eof, query, query_vars >>

\* connect_to_server raises: main() prints the error
MainConnectFails ==
    /\ pc = "connect"
    /\ \E path \in ScriptPaths, outcome \in ConnectOutcomes :
         /\ ConnectRaises(path, outcome)
         /\ ConnectToServer(path, outcome)
         /\ stdout' = Out("fatal", << ConnectError(path, outcome) >>)
    /\ pc' = "exited"
    /\ UNCHANGED << provider, model_name, full_model_name, anthropic, openai, exit_stack,
                    api_keys, ui_vars, closed, exit_status, calls, eof, query, query_vars >>

\* where main() is inside connect_to_server or chat_loop
Running ==
    {"connect", "input", "process_query", "first_call", "a_loop", "a_followup",
     "o_loop", "o_followup", "returned", "raised"}

\* KeyboardInterrupt while connecting or in the chat loop: it is no
\* Exception, so chat_loop does not catch it; main() prints "Exiting..."
MainInterrupt ==
    /\ pc \in Running
    /\ stdout' = Out("exiting", <<>>)
    /\ pc' = "exited"
    /\ NoQueryNext
    /\ UNCHANGED << client_vars, api_keys, ui_vars, closed, exit_status, calls, eof, query >>

\* (cleanup only for a client that has a session)
ClientInLocalsIfConnected == session # None

\* 'client' in locals()
ClientInLocals == provider # None

\* finally: if 'client' in locals(): await client.cleanup(); main() returns
\* and the process exits with status 0
MainCleanup ==
    /\ pc = "exited"
    /\ ClientInLocals
    /\ Cleanup
    /\ exit_status' = << 0 >>
    /\ pc' = "done"
    /\ UNCHANGED << provider, model_name, full_model_name, anthropic, openai, session, exit_stack,
                    api_keys, ui_vars, calls, eof, query, stdout, query_vars >>

\* finally, with no client bound: main() returns and the process exits with
\* status 0
MainExitWithoutClient ==
    /\ pc = "exited"
    /\ ~ClientInLocals
    /\ exit_status' = << 0 >>
    /\ pc' = "done"
    /\ UNCHANGED << client_vars, api_keys, ui_vars, closed, calls, eof, query, stdout, query_vars >>

(* ------------------------------------------------------------------ *)
(* chat_loop                                                           *)
(* ------------------------------------------------------------------ *)

\* parts[0].strip().lower()
ProviderStr(line) == Lower(UseParts(line)[1])

\* new_model: parts[1].strip() when a colon is given, else None
NewModel(line) == IF Len(UseParts(line)) > 1 THEN UseParts(line)[2] ELSE None

NewProvider(line) == IF ProviderStr(line) = "openai" THEN OPENAI ELSE ANTHROPIC

\* (a wider allow-list, as a slip in the list would make it)
SupportedProviderWider(line) == ProviderStr(line) \in {"openai", "anthropic", "gemini"}

\* provider_str in ['openai', 'anthropic']
SupportedProvider(line) == ProviderStr(line) \in {"openai", "anthropic"}

\* new_provider != self.provider or (new_model and new_model != self.model_name)
NeedsReinit(line) ==
    \/ NewProvider(line) # provider
    \/ (Truthy(NewModel(line)) /\ NewModel(line) # model_name)

\* `quit`: leave the loop
ChatQuit ==
    /\ pc = "input"
    /\ ~eof
    /\ \E line \in InputLines :
         /\ IsQuit(line)
         /\ query' = line
    /\ pc' = "exited"
    /\ stdout' = Out("prompt", <<>>)
    /\ UNCHANGED << client_vars, api_keys, ui_vars, closed, exit_status, calls, eof, query_vars >>

\* `use <provider>` with a provider outside the allow-list
ChatUseUnsupported ==
    /\ pc = "input"
    /\ ~eof
    /\ \E line \in InputLines :
         /\ ~IsQuit(line)
         /\ IsUse(line)
         /\ ~SupportedProvider(line)
         /\ query' = line
         /\ stdout' = Out("unsupported_provider", << ProviderStr(line) >>)
    /\ pc' = "input"
    /\ UNCHANGED << client_vars, api_keys, ui_vars, closed, exit_status, calls, eof, query_vars >>

\* the assignments of a successful switch (a variant that also reconnects
\* to the server, which the code does not do)
ReplaceClientAndReconnect(line, new_client) ==
    LET models == IF NewProvider(line) = ANTHROPIC THEN ANTHROPIC_MODELS ELSE OPENAI_MODELS
    IN  /\ provider' = NewProvider(line)
        /\ model_name' = NewModel(line)
        /\ full_model_name' = DictGet(models, NewModel(line), NewModel(line))
        /\ anthropic' = IF NewProvider(line) = ANTHROPIC THEN new_client.anthropic ELSE None
        /\ openai' = IF NewProvider(line) = OPENAI THEN new_client.openai ELSE None
        /\ stdout' = Out("switched", << NewProvider(line), DictGet(models, NewModel(line), NewModel(line)) >>)
        /\ session' = "session_2"
        /\ UNCHANGED << exit_stack, stack, closed >>

\* (a variant that leaves the field of the other provider as it was)
ReplaceClientKeepingOther(line, new_client) ==
    LET models == IF NewProvider(line) = ANTHROPIC THEN ANTHROPIC_MODELS ELSE OPENAI_MODELS
    IN  /\ provider' = NewProvider(line)
        /\ model_name' = NewModel(line)
        /\ full_model_name' = DictGet(models, NewModel(line), NewModel(line))
        /\ anthropic' = IF NewProvider(line) = ANTHROPIC THEN new_client.anthropic ELSE anthropic
        /\ openai' = IF NewProvider(line) = OPENAI THEN new_client.openai ELSE openai
        /\ stdout' = Out("switched", << NewProvider(line), DictGet(models, NewModel(line), NewModel(line)) >>)
        /\ UNCHANGED << session, exit_stack, stack, closed >>

\* the assignments of a successful switch: provider, model_name,
\* full_model_name and the two provider client fields; session and
\* exit_stack are not assigned and cleanup is not called
ReplaceClient(line, new_client) ==
    LET models == IF NewProvider(line) = ANTHROPIC THEN ANTHROPIC_MODELS ELSE OPENAI_MODELS
    IN  /\ provider' = NewProvider(line)
        /\ model_name' = NewModel(line)
        /\ full_model_name' = DictGet(models, NewModel(line), NewModel(line))
        /\ anthropic' = IF NewProvider(line) = ANTHROPIC THEN new_client.anthropic ELSE None
        /\ openai' = IF NewProvider(line) = OPENAI THEN new_client.openai ELSE None
        /\ stdout' = Out("switched", << NewProvider(line), DictGet(models, NewModel(line), NewModel(line)) >>)
        /\ UNCHANGED << session, exit_stack, stack, closed >>

\* `use <provider>[:<model>]` that reinitialises: the new client is constructed
\* and its provider, model and provider client replace the current ones
ChatUseSwitch ==
    /\ pc = "input"
    /\ ~eof
    /\ \E line \in InputLines :
         /\ ~IsQuit(line)
         /\ IsUse(line)
         /\ SupportedProvider(line)
         /\ NeedsReinit(line)
         /\ LET new_client == Construct(NewProvider(line), NewModel(line), api_keys,
                                        {anthropic, openai})
            IN  /\ new_client.ok
                /\ ReplaceClient(line, new_client)
         /\ query' = line
    /\ pc' = "input"
    /\ UNCHANGED << api_keys, ui_vars, exit_status, calls, eof, query_vars >>

\* (the provider assigned before the new client is constructed)
ProviderAfterFailedSwitchAssigned(line) == NewProvider(line)

\* the constructor is the first statement of the try block: when it raises,
\* none of the assignments after it has run
ProviderAfterFailedSwitch(line) == provider

\* the same command when constructing the new client raises
ChatUseSwitchError ==
    /\ pc = "input"
    /\ ~eof
    /\ \E line \in InputLines :
         /\ ~IsQuit(line)
         /\ IsUse(line)
         /\ SupportedProvider(line)
         /\ NeedsReinit(line)
         /\ ~Construct(NewProvider(line), NewModel(line), api_keys, {anthropic, openai}).ok
         /\ provider' = ProviderAfterFailedSwitch(line)
         /\ query' = line
    /\ stdout' = Out("switch_error", <<>>)
    /\ pc' = "input"
    /\ UNCHANGED << model_name, full_model_name, anthropic, openai, session, exit_stack, stack,
                    api_keys, ui_vars, closed, exit_status, calls, eof, query_vars >>

\* a `use` line naming the active provider and model: nothing is
\* reinitialised, no `continue` is reached, and control falls to process_query
ChatUseFallsThrough ==
    /\ pc = "input"
    /\ ~eof
    /\ \E line \in InputLines :
         /\ ~IsQuit(line)
         /\ IsUse(line)
         /\ SupportedProvider(line)
         /\ ~NeedsReinit(line)
         /\ query' = line
    /\ stdout' = Out("prompt", <<>>)
    /\ pc' = "process_query"
    /\ UNCHANGED << client_vars, api_keys, ui_vars, closed, exit_status, calls, eof, query_vars >>

\* any other line is a query
ChatQuery ==
    /\ pc = "input"
    /\ ~eof
    /\ \E line \in InputLines :
         /\ ~IsQuit(line)
         /\ ~IsUse(line)
         /\ query' = line
    /\ stdout' = Out("prompt", <<>>)
    /\ pc' = "process_query"
    /\ UNCHANGED << client_vars, api_keys, ui_vars, closed, exit_status, calls, eof, query_vars >>

\* input() raises EOFError at the end of standard input: it is an Exception,
\* so the handler of the loop prints it and the loop reads again
ChatEOF ==
    /\ pc = "input"
    /\ eof' = TRUE
    /\ stdout' = Out("error", << "EOFError" >>)
    /\ pc' = "input"
    /\ UNCHANGED << client_vars, api_keys, ui_vars, closed, exit_status, calls, query, query_vars >>

\* print("\n" + response)
ChatPrintResponse ==
    /\ pc = "returned"
    /\ stdout' = Out("response", result)
    /\ pc' = "input"
    /\ NoQueryNext
    /\ UNCHANGED << client_vars, api_keys, ui_vars, closed, exit_status, calls, eof, query >>

\* (the error ending the loop, as a handler that re-raised would)
AfterQueryErrorLeaves == "exited"

\* the handler is inside `while True`: after it the loop reads again
AfterQueryError == "input"

\* except Exception as e: print(f"\nError: {str(e)}")
ChatPrintError ==
    /\ pc = "raised"
    /\ stdout' = Out("error", <<>>)
    /\ pc' = AfterQueryError
    /\ NoQueryNext
    /\ UNCHANGED << client_vars, api_keys, ui_vars, closed, exit_status, calls, eof, query >>

(* ------------------------------------------------------------------ *)
(* process_query                                                       *)
(* ------------------------------------------------------------------ *)

\* available_tools of _process_anthropic_query
AnthropicTools(tools) ==
    [k \in 1..Len(tools) |->
        [name |-> tools[k].name,
         description |-> IF Truthy(tools[k].description) THEN tools[k].description ELSE "",
         input_schema |-> tools[k].inputSchema]]

\* (the description passed as it is, None included)
OpenAIToolsDescriptionAsIs(tools) ==
    [k \in 1..Len(tools) |->
        [type |-> "function",
         function |-> [name |-> tools[k].name,
                       description |-> tools[k].description,
                       parameters |-> tools[k].inputSchema]]]

\* available_tools of _process_openai_query
OpenAITools(tools) ==
    [k \in 1..Len(tools) |->
        [type |-> "function",
         function |-> [name |-> tools[k].name,
                       description |-> IF Truthy(tools[k].description) THEN tools[k].description ELSE "",
                       parameters |-> tools[k].inputSchema]]]

\* the conversation as the provider receives it: a message holding the list
\* assistant_message_content is serialised with the list's current contents
OnWire(msgs, amc) ==
    [k \in 1..Len(msgs) |->
        IF msgs[k].kind = "amc" THEN Msg("assistant", "blocks", 0, None, amc) ELSE msgs[k]]

LogCall(ok) == provider_log' = Append(provider_log, ok)

\* (the user turn added after a turn that was there before)
SeedMessagesWithEarlierTurn(q) == << UserMsg(<< "An earlier question" >>), UserMsg(q) >>

\* messages = [{"role": "user", "content": query}]
SeedMessages(q) == << UserMsg(q) >>

\* (the guard left out, the session used whatever it is)
SessionMissingNever(s) == FALSE

\* if not self.session
SessionMissing(s) == s = None

\* process_query up to the dispatch: the session check and list_tools, then
\* the provider path seeds messages with the user turn
ProcessQueryStart ==
    /\ pc = "process_query"
    /\ IF SessionMissing(session)
       THEN /\ pc' = "raised"
            /\ UNCHANGED << tool_response, messages >>
       ELSE /\ pc' = "first_call"
            /\ tool_response' = ServerTools
            /\ messages' = SeedMessages(query)
    /\ UNCHANGED << client_vars, api_keys, ui_vars, closed, exit_status, calls, eof, query, stdout,
                    assistant_message_content, final_text, response, iterating, idx, result,
                    wire, wire_model, wire_client, wire_tools, provider_log, tool_log >>

\* session.list_tools() raises
ProcessQueryListToolsFails ==
    /\ pc = "process_query"
    /\ session # None
    /\ pc' = "raised"
    /\ UNCHANGED << client_vars, api_keys, ui_vars, closed, exit_status, calls, eof, query, stdout, query_vars >>

\* (returning to the caller instead, as swallowing the exception would)
AfterFirstCallErrorReturns(p) == "returned"

\* except Exception as e: logger.error(...); raise
AfterFirstCallError(p) == "raised"

\* (the result line before the calling line)
ToolTraceLinesResultFirst(tool_name, tool_args, tool_result_text) ==
    << Line("result", None, tool_result_text), Line("calling", tool_name, << tool_args >>) >>

\* final_text.append(f"[Calling tool {tool_name} with args {tool_args}]")
\* final_text.append(f"[Tool result: {tool_result_text}]")
ToolTraceLines(tool_name, tool_args, tool_result_text) ==
    << Line("calling", tool_name, << tool_args >>), Line("result", None, tool_result_text) >>

\* (the calling line written before the call, so that it stays on failure)
ToolErrorLinesAfterCalling(tool_name, e) ==
    << Line("calling", tool_name, << "city=Paris" >>), Line("error_tool", tool_name, << e >>) >>

\* except Exception as e: final_text.append(f"[Error calling tool {tool_name}: {str(e)}]")
ToolErrorLines(tool_name, e) == << Line("error_tool", tool_name, << e >>) >>

(* ---------------- _process_anthropic_query ------------------------- *)

AnthropicResponse(content) ==
    [kind |-> "anthropic", content |-> content, text |-> None, tool_calls |-> <<>>]

\* the initial messages.create call returns; the for statement binds the
\* block list of this response
AnthropicFirstCall ==
    /\ pc = "first_call"
    /\ provider = ANTHROPIC
    /\ \E content \in AnthropicFirst :
         /\ response' = AnthropicResponse(content)
         /\ iterating' = content
    /\ wire' = OnWire(messages, assistant_message_content)
    /\ wire_model' = full_model_name
    /\ wire_client' = anthropic
    /\ wire_tools' = AnthropicTools(tool_response)
    /\ LogCall(TRUE)
    /\ final_text' = <<>>
    /\ assistant_message_content' = <<>>
    /\ idx' = 1
    /\ pc' = "a_loop"
    /\ UNCHANGED << client_vars, api_keys, ui_vars, closed, exit_status, calls, eof, query, stdout, tool_response, messages, result, tool_log >>

\* the initial call raises: logged and re-raised
AnthropicFirstCallFails ==
    /\ pc = "first_call"
    /\ provider = ANTHROPIC
    /\ wire' = OnWire(messages, assistant_message_content)
    /\ wire_model' = full_model_name
    /\ wire_client' = anthropic
    /\ wire_tools' = AnthropicTools(tool_response)
    /\ LogCall(FALSE)
    /\ pc' = AfterFirstCallError(provider)
    /\ UNCHANGED << client_vars, api_keys, ui_vars, closed, exit_status, calls, eof, query, stdout, tool_response, messages,
                    assistant_message_content, final_text, response, iterating, idx,
                    result, tool_log >>

\* content.type == 'text'
AnthropicText ==
    /\ pc = "a_loop"
    /\ idx <= Len(iterating)
    /\ iterating[idx].type = "text"
    /\ final_text' = Append(final_text, Line("text", None, << iterating[idx].text >>))
    /\ assistant_message_content' = Append(assistant_message_content, iterating[idx])
    /\ idx' = idx + 1
    /\ UNCHANGED << client_vars, api_keys, ui_vars, closed, exit_status, calls, eof, pc, query, stdout, tool_response, messages, response,
                    iterating, result, wire, wire_model, wire_client, wire_tools, provider_log, tool_log >>

\* (the same request handled again after its follow-up call)
AfterFollowUpSameRequest(i) == i

\* the follow-up call ends the iteration: the for statement takes the next
\* element of the list it walks
AfterFollowUp(i) == i + 1

\* the two messages appended after a successful call_tool: the assistant
\* message holding assistant_message_content, and the tool_result message
AnthropicToolMessages(content, tool_result_text) ==
    << Msg("assistant", "amc", 0, None, <<>>),
       Msg("user", "tool_result", content.id, tool_result_text, <<>>) >>

\* (going to the next block first, the follow-up call left for later)
AnthropicAfterToolOkNextBlock(i) == [pc |-> "a_loop", idx |-> i + 1]

\* after a successful call_tool the follow-up call is made within the same
\* iteration, before the for statement moves on
AnthropicAfterToolOk(i) == [pc |-> "a_followup", idx |-> i]

\* content.type == 'tool_use' and call_tool returns
AnthropicToolOk ==
    /\ pc = "a_loop"
    /\ idx <= Len(iterating)
    /\ iterating[idx].type = "tool_use"
    /\ \E res \in ToolResults :
         LET content == iterating[idx]
             tool_result_text == JoinParts(res)
         IN  /\ final_text' = final_text \o ToolTraceLines(content.name, content.input, tool_result_text)
             /\ assistant_message_content' = Append(assistant_message_content, content)
             /\ messages' = messages \o AnthropicToolMessages(content, tool_result_text)
             /\ tool_log' = Append(tool_log, [id |-> content.id, name |-> content.name, ok |-> TRUE])
    /\ pc' = AnthropicAfterToolOk(idx).pc
    /\ idx' = AnthropicAfterToolOk(idx).idx
    /\ UNCHANGED << client_vars, api_keys, ui_vars, closed, exit_status, calls, eof, query, stdout, tool_response, response, iterating,
                    result, wire, wire_model, wire_client, wire_tools, provider_log >>

\* (leaving the loop instead, as `break` would)
AnthropicAfterToolErrorBreak(i, n) == n + 1

\* `continue` after a failed call_tool: the loop goes to the next block
AnthropicAfterToolError(i, n) == i + 1

\* content.type == 'tool_use' and call_tool raises: an error line, `continue`
AnthropicToolFails ==
    /\ pc = "a_loop"
    /\ idx <= Len(iterating)
    /\ iterating[idx].type = "tool_use"
    /\ \E e \in Causes :
         final_text' = final_text \o ToolErrorLines(iterating[idx].name, e)
    /\ tool_log' = Append(tool_log, [id |-> iterating[idx].id, name |-> iterating[idx].name, ok |-> FALSE])
    /\ idx' = AnthropicAfterToolError(idx, Len(iterating))
    /\ UNCHANGED << client_vars, api_keys, ui_vars, closed, exit_status, calls, eof, pc, query, stdout, tool_response, messages,
                    assistant_message_content, response, iterating, result,
                    wire, wire_model, wire_client, wire_tools, provider_log >>

\* the follow-up messages.create call returns: the text of its first block,
\* when that is a text block, joins final_text
AnthropicFollowUp ==
    /\ pc = "a_followup"
    /\ \E content \in AnthropicFollow :
         /\ response' = AnthropicResponse(content)
         /\ final_text' = IF content # <<>> /\ content[1].type = "text"
                          THEN Append(final_text, Line("text", None, << content[1].text >>))
                          ELSE final_text
    /\ wire' = OnWire(messages, assistant_message_content)
    /\ wire_model' = full_model_name
    /\ wire_client' = anthropic
    /\ wire_tools' = AnthropicTools(tool_response)
    /\ LogCall(TRUE)
    /\ idx' = AfterFollowUp(idx)
    /\ pc' = "a_loop"
    /\ UNCHANGED << client_vars, api_keys, ui_vars, closed, exit_status, calls, eof, query, stdout, tool_response, messages,
                    assistant_message_content, iterating, result, tool_log >>

\* the follow-up call raises: an error line, and the loop goes on
AnthropicFollowUpFails ==
    /\ pc = "a_followup"
    /\ \E e \in Causes :
         final_text' = Append(final_text, Line("error_followup", None, << e >>))
    /\ wire' = OnWire(messages, assistant_message_content)
    /\ wire_model' = full_model_name
    /\ wire_client' = anthropic
    /\ wire_tools' = AnthropicTools(tool_response)
    /\ LogCall(FALSE)
    /\ idx' = AfterFollowUp(idx)
    /\ pc' = "a_loop"
    /\ UNCHANGED << client_vars, api_keys, ui_vars, closed, exit_status, calls, eof, query, stdout, tool_response, messages,
                    assistant_message_content, response, iterating, result, tool_log >>

\* return "\n".join(final_text)
AnthropicReturn ==
    /\ pc = "a_loop"
    /\ idx > Len(iterating)
    /\ result' = Join(final_text)
    /\ pc' = "returned"
    /\ UNCHANGED << client_vars, api_keys, ui_vars, closed, exit_status, calls, eof, query, stdout, tool_response, messages,
                    assistant_message_content, final_text, response, iterating, idx,
                    wire, wire_model, wire_client, wire_tools, provider_log, tool_log >>

(* ---------------- _process_openai_query ---------------------------- *)

OpenAIResponse(message) ==
    [kind |-> "openai", content |-> <<>>, text |-> message.content, tool_calls |-> message.tool_calls]

\* (the first response's text left out of the output)
OpenAIFirstTextDropped(message) == <<>>

\* content = message.content or ""; if content: final_text.append(content)
OpenAIFirstText(message) ==
    IF Truthy(message.content) THEN << Line("text", None, << message.content >>) >> ELSE <<>>

\* the initial chat.completions.create call returns; message.content, when
\* not empty, opens final_text, and the for statement binds message.tool_calls
OpenAIFirstCall ==
    /\ pc = "first_call"
    /\ provider = OPENAI
    /\ \E message \in OpenAIFirst :
         /\ response' = OpenAIResponse(message)
         /\ iterating' = message.tool_calls
         /\ final_text' = OpenAIFirstText(message)
    /\ wire' = OnWire(messages, assistant_message_content)
    /\ wire_model' = full_model_name
    /\ wire_client' = openai
    /\ wire_tools' = OpenAITools(tool_response)
    /\ LogCall(TRUE)
    /\ idx' = 1
    /\ pc' = "o_loop"
    /\ UNCHANGED << client_vars, api_keys, ui_vars, closed, exit_status, calls, eof, query, stdout, tool_response, messages,
                    assistant_message_content, result, tool_log >>

\* the initial call raises: logged and re-raised
OpenAIFirstCallFails ==
    /\ pc = "first_call"
    /\ provider = OPENAI
    /\ wire' = OnWire(messages, assistant_message_content)
    /\ wire_model' = full_model_name
    /\ wire_client' = openai
    /\ wire_tools' = OpenAITools(tool_response)
    /\ LogCall(FALSE)
    /\ pc' = AfterFirstCallError(provider)
    /\ UNCHANGED << client_vars, api_keys, ui_vars, closed, exit_status, calls, eof, query, stdout, tool_response, messages,
                    assistant_message_content, final_text, response, iterating, idx,
                    result, tool_log >>

\* json.loads(tool_call.function.arguments) raises JSONDecodeError: an error
\* line naming the tool, then `continue`
OpenAIArgumentsUndecodable ==
    /\ pc = "o_loop"
    /\ idx <= Len(iterating)
    /\ ~JsonLoads(iterating[idx].arguments).ok
    /\ final_text' = Append(final_text, Line("error_parse", iterating[idx].name, <<>>))
    /\ idx' = idx + 1
    /\ UNCHANGED << client_vars, api_keys, ui_vars, closed, exit_status, calls, eof, pc, query, stdout, tool_response, messages,
                    assistant_message_content, response, iterating, result,
                    wire, wire_model, wire_client, wire_tools, provider_log, tool_log >>

\* the two messages appended after a successful call_tool: the assistant
\* message with this one tool call, and the tool message with its result
OpenAIToolMessages(tool_call, tool_result_text) ==
    << Msg("assistant", "tool_calls", 0, None, << tool_call >>),
       Msg("tool", "tool", tool_call.id, tool_result_text, <<>>) >>

\* the arguments decode and call_tool returns
OpenAIToolOk ==
    /\ pc = "o_loop"
    /\ idx <= Len(iterating)
    /\ JsonLoads(iterating[idx].arguments).ok
    /\ \E res \in ToolResults :
         LET tool_call == iterating[idx]
             tool_args == JsonLoads(tool_call.arguments).value
             tool_result_text == JoinParts(res)
         IN  /\ final_text' = final_text \o ToolTraceLines(tool_call.name, tool_args, tool_result_text)
             /\ messages' = messages \o OpenAIToolMessages(tool_call, tool_result_text)
             /\ tool_log' = Append(tool_log, [id |-> tool_call.id, name |-> tool_call.name, ok |-> TRUE])
    /\ pc' = "o_followup"
    /\ UNCHANGED << client_vars, api_keys, ui_vars, closed, exit_status, calls, eof, query, stdout, tool_response, assistant_message_content,
                    response, iterating, idx, result, wire, wire_model, wire_client, wire_tools, provider_log >>

\* `continue` after a failed call_tool: the loop goes to the next tool call
OpenAIAfterToolError(i, n) == i + 1

\* the arguments decode and call_tool raises: an error line, `continue`
OpenAIToolFails ==
    /\ pc = "o_loop"
    /\ idx <= Len(iterating)
    /\ JsonLoads(iterating[idx].arguments).ok
    /\ \E e \in Causes :
         final_text' = final_text \o ToolErrorLines(iterating[idx].name, e)
    /\ tool_log' = Append(tool_log, [id |-> iterating[idx].id, name |-> iterating[idx].name, ok |-> FALSE])
    /\ idx' = OpenAIAfterToolError(idx, Len(iterating))
    /\ UNCHANGED << client_vars, api_keys, ui_vars, closed, exit_status, calls, eof, pc, query, stdout, tool_response, messages,
                    assistant_message_content, response, iterating, result,
                    wire, wire_model, wire_client, wire_tools, provider_log >>

\* the follow-up chat.completions.create call (sent without tools) returns:
\* its message.content or "" joins final_text
OpenAIFollowUp ==
    /\ pc = "o_followup"
    /\ \E message \in OpenAIFollow :
         /\ response' = OpenAIResponse(message)
         /\ final_text' = Append(final_text,
                Line("text", None, << IF Truthy(message.content) THEN message.content ELSE "" >>))
    /\ wire' = OnWire(messages, assistant_message_content)
    /\ wire_model' = full_model_name
    /\ wire_client' = openai
    /\ wire_tools' = <<>>
    /\ LogCall(TRUE)
    /\ idx' = AfterFollowUp(idx)
    /\ pc' = "o_loop"
    /\ UNCHANGED << client_vars, api_keys, ui_vars, closed, exit_status, calls, eof, query, stdout, tool_response, messages,
                    assistant_message_content, iterating, result, tool_log >>

\* the follow-up call raises: an error line, and the loop goes on
OpenAIFollowUpFails ==
    /\ pc = "o_followup"
    /\ \E e \in Causes :
         final_text' = Append(final_text, Line("error_followup", None, << e >>))
    /\ wire' = OnWire(messages, assistant_message_content)
    /\ wire_model' = full_model_name
    /\ wire_client' = openai
    /\ wire_tools' = <<>>
    /\ LogCall(FALSE)
    /\ idx' = AfterFollowUp(idx)
    /\ pc' = "o_loop"
    /\ UNCHANGED << client_vars, api_keys, ui_vars, closed, exit_status, calls, eof, query, stdout, tool_response, messages,
                    assistant_message_content, response, iterating, result, tool_log >>

\* return "\n".join(final_text)
OpenAIReturn ==
    /\ pc = "o_loop"
    /\ idx > Len(iterating)
    /\ result' = Join(final_text)
    /\ pc' = "returned"
    /\ UNCHANGED << client_vars, api_keys, ui_vars, closed, exit_status, calls, eof, query, stdout, tool_response, messages,
                    assistant_message_content, final_text, response, iterating, idx,
                    wire, wire_model, wire_client, wire_tools, provider_log, tool_log >>

(* ------------------------------------------------------------------ *)
(* Specification                                                       *)
(* ------------------------------------------------------------------ *)

Next ==
    \/ MainUsageError
    \/ MainConstruct
    \/ MainConstructFails
    \/ MainConnect
    \/ MainConnectFails
    \/ MainInterrupt
    \/ MainCleanup
    \/ MainExitWithoutClient
    \/ ChatQuit
    \/ ChatUseUnsupported
    \/ ChatUseSwitch
    \/ ChatUseSwitchError
    \/ ChatUseFallsThrough
    \/ ChatQuery
    \/ ChatEOF
    \/ ChatPrintResponse
    \/ ChatPrintError
    \/ ProcessQueryStart
    \/ ProcessQueryListToolsFails
    \/ AnthropicFirstCall
    \/ AnthropicFirstCallFails
    \/ AnthropicText
    \/ AnthropicToolOk
    \/ AnthropicToolFails
    \/ AnthropicFollowUp
    \/ AnthropicFollowUpFails
    \/ AnthropicReturn
    \/ OpenAIFirstCall
    \/ OpenAIFirstCallFails
    \/ OpenAIArgumentsUndecodable
    \/ OpenAIToolOk
    \/ OpenAIToolFails
    \/ OpenAIFollowUp
    \/ OpenAIFollowUpFails
    \/ OpenAIReturn

Spec == Init /\ [][Next]_vars

(* ------------------------------------------------------------------ *)
(* The class used directly, as examples/basic_usage.py uses it         *)
(* ------------------------------------------------------------------ *)

\* the number of process_query calls the caller makes
MaxCalls == 2

\* the queries the caller passes
ApiQueries == { << "What is the weather in Paris?" >>, << "And the price of bitcoin?" >> }

\* a client has been constructed and nothing else has been called
ApiInit ==
    /\ api_keys \in (SUBSET ModelProvider) \ {{}}
    /\ \E p \in api_keys, m \in ModelArgs :
         LET c == Construct(p, m, api_keys, {})
         IN  /\ provider = c.provider
             /\ model_name = c.model_name
             /\ full_model_name = c.full_model_name
             /\ anthropic = c.anthropic
             /\ openai = c.openai
    /\ session = None
    /\ exit_stack = "exit_stack_1"
    /\ stack = <<>>
    /\ closed = FALSE
    /\ exit_status = <<>>
    /\ calls = 0
    /\ eof = FALSE
    /\ NoUi
    /\ pc = "api"
    /\ query = <<>>
    /\ stdout = Out("none", <<>>)
    /\ NoQuery

\* await client.connect_to_server(path), on a client not yet connected
ApiConnectTo(path, outcome) ==
    /\ pc = "api"
    /\ session = None
    /\ ~closed
    /\ ConnectToServer(path, outcome)
    /\ stdout' = IF ConnectRaises(path, outcome)
                 THEN Out("connect_raised", << ConnectError(path, outcome) >>)
                 ELSE Out("connected", <<>>)
    /\ UNCHANGED << provider, model_name, full_model_name, anthropic, openai, exit_stack,
                    api_keys, ui_vars, closed, exit_status, calls, eof, pc, query, query_vars >>

\* connect_to_server returns
ApiConnect ==
    \E path \in ScriptPaths, outcome \in ConnectOutcomes :
        /\ ~ConnectRaises(path, outcome)
        /\ ApiConnectTo(path, outcome)

\* connect_to_server raises, and the caller goes on
ApiConnectFails ==
    \E path \in ScriptPaths, outcome \in ConnectOutcomes :
        /\ ConnectRaises(path, outcome)
        /\ ApiConnectTo(path, outcome)

\* print(f"\nQuery: {query}"); response = await client.process_query(query)
ApiProcessQuery ==
    /\ pc = "api"
    /\ ~closed
    /\ calls < MaxCalls
    /\ \E q \in ApiQueries : query' = q
    /\ stdout' = Out("query", <<>>)
    /\ calls' = calls + 1
    /\ pc' = "process_query"
    /\ UNCHANGED << client_vars, api_keys, ui_vars, closed, exit_status, eof, query_vars >>

\* process_query returns: print(f"Response: {response}")
ApiReturn ==
    /\ pc = "returned"
    /\ stdout' = Out("response", result)
    /\ pc' = "api"
    /\ NoQueryNext
    /\ UNCHANGED << client_vars, api_keys, ui_vars, closed, exit_status, calls, eof, query >>

\* process_query raises, and the caller goes on
ApiRaise ==
    /\ pc = "raised"
    /\ stdout' = Out("query_raised", <<>>)
    /\ pc' = "api"
    /\ NoQueryNext
    /\ UNCHANGED << client_vars, api_keys, ui_vars, closed, exit_status, calls, eof, query >>

\* await client.cleanup()
ApiCleanup ==
    /\ pc = "api"
    /\ ~closed
    /\ Cleanup
    /\ UNCHANGED << provider, model_name, full_model_name, anthropic, openai, session, exit_stack,
                    api_keys, ui_vars, exit_status, calls, eof, pc, query, stdout, query_vars >>

ApiNext ==
    \/ ApiConnect
    \/ ApiConnectFails
    \/ ApiProcessQuery
    \/ ApiReturn
    \/ ApiRaise
    \/ ApiCleanup
    \/ ProcessQueryStart
    \/ ProcessQueryListToolsFails
    \/ AnthropicFirstCall
    \/ AnthropicFirstCallFails
    \/ AnthropicText
    \/ AnthropicToolOk
    \/ AnthropicToolFails
    \/ AnthropicFollowUp
    \/ AnthropicFollowUpFails
    \/ AnthropicReturn
    \/ OpenAIFirstCall
    \/ OpenAIFirstCallFails
    \/ OpenAIArgumentsUndecodable
    \/ OpenAIToolOk
    \/ OpenAIToolFails
    \/ OpenAIFollowUp
    \/ OpenAIFollowUpFails
    \/ OpenAIReturn

ApiSpec == ApiInit /\ [][ApiNext]_vars

(* ------------------------------------------------------------------ *)
(* The tool schema conversions, on any list of tool descriptors        *)
(* ------------------------------------------------------------------ *)

\* the length of the tool lists converted
MaxTools == 2

\* tool descriptors a session may advertise: description is optional
ToolDescriptors ==
    [name : ToolNames,
     description : {None, "", "Get the weather"},
     inputSchema : {"schema_weather", "schema_crypto"}]

ToolLists == UNION { [1..n -> ToolDescriptors] : n \in 0..MaxTools }

\* a provider path has been entered with some list of tools
SchemaInit ==
    /\ api_keys = ModelProvider
    /\ provider = None
    /\ model_name = None
    /\ full_model_name = None
    /\ anthropic = None
    /\ openai = None
    /\ session = None
    /\ exit_stack = None
    /\ stack = <<>>
    /\ closed = FALSE
    /\ exit_status = <<>>
    /\ calls = 0
    /\ eof = FALSE
    /\ NoUi
    /\ pc = "schema"
    /\ query = <<>>
    /\ stdout = Out("none", <<>>)
    /\ messages = <<>>
    /\ assistant_message_content = <<>>
    /\ final_text = <<>>
    /\ response = NoResponse
    /\ iterating = <<>>
    /\ idx = 0
    /\ result = <<>>
    /\ tool_response \in ToolLists
    /\ wire = <<>>
    /\ wire_model = None
    /\ wire_client = None
    /\ wire_tools = <<>>
    /\ provider_log = <<>>
    /\ tool_log = <<>>

\* available_tools of _process_anthropic_query is built
SchemaAnthropic ==
    /\ pc = "schema"
    /\ wire_tools' = AnthropicTools(tool_response)
    /\ pc' = "schema_anthropic"
    /\ UNCHANGED << client_vars, api_keys, ui_vars, closed, exit_status, calls, eof, query, stdout,
                    messages, assistant_message_content, final_text, response, iterating, idx,
                    result, tool_response, wire, wire_model, wire_client, provider_log, tool_log >>

\* available_tools of _process_openai_query is built
SchemaOpenAI ==
    /\ pc = "schema"
    /\ wire_tools' = OpenAITools(tool_response)
    /\ pc' = "schema_openai"
    /\ UNCHANGED << client_vars, api_keys, ui_vars, closed, exit_status, calls, eof, query, stdout,
                    messages, assistant_message_content, final_text, response, iterating, idx,
                    result, tool_response, wire, wire_model, wire_client, provider_log, tool_log >>

SchemaNext ==
    \/ SchemaAnthropic
    \/ SchemaOpenAI

SchemaSpec == SchemaInit /\ [][SchemaNext]_vars

(* ------------------------------------------------------------------ *)
(* The web UI (src/ui/app.py)                                          *)
(* ------------------------------------------------------------------ *)

\* the button clicks of a run of the UI that are explored
MaxClicks == 2

\* what the user has typed in the Server Path box when Connect is clicked
UiPaths == { << "s", ".", "p", "y" >>, << "s", ".", "s", "h" >> }

\* the provider and model select boxes: the options are the keys of the
\* provider's map; the default of each provider and one other are explored
UiSelections ==
    { << "anthropic", "claude-3-sonnet" >>, << "openai", "gpt-4-turbo" >>, << "openai", "gpt-4" >> }

\* ModelProvider.ANTHROPIC if provider == "anthropic" else ModelProvider.OPENAI
ProviderEnum(p) == IF p = "anthropic" THEN ANTHROPIC ELSE OPENAI

\* no path (None where a path is a sequence of characters) and no selection
NoPath == <<>>

NoSelection == << None, None >>

\* a UniversalMCPClient object as __init__ leaves it; stack is what its
\* exit_stack holds, so the tool-hosting connection it opened is open while
\* stack is not empty
NewClient(c) ==
    [provider |-> c.provider, model_name |-> c.model_name, full_model_name |-> c.full_model_name,
     server_path |-> NoPath, session |-> None, stack |-> <<>>, closed |-> FALSE]

\* client.connect_to_server(path) on the object c: _server_path is assigned
\* first; the session and the contexts are entered unless the path is
\* rejected or the transport does not start
ClientConnected(c, path, outcome) ==
    IF ~ScriptAccepted(path) \/ outcome = "transport_fails"
    THEN [c EXCEPT !.server_path = path]
    ELSE [c EXCEPT !.server_path = path,
                   !.session = "session_1",
                   !.stack = @ \o << "stdio_client", "ClientSession" >>]

\* client.cleanup() on the object c
ClientCleanedUp(c) == [c EXCEPT !.closed = TRUE, !.stack = <<>>]

\* how client.process_query(query) on the object c may end: it raises
\* without a session, and on a session whose transport has been closed
QueryOutcomes(c) ==
    IF SessionMissing(c.session) \/ c.stack = <<>> THEN {"raises"} ELSE {"returns", "raises"}

\* an entry of st.session_state.messages; `of` is the click that submitted
\* the query a user message or its answer belongs to, 0 for other messages
UiMsg(role, kind, of) == [role |-> role, kind |-> kind, of |-> of]

\* a background thread: the closure of run_async_connection, run_async_query
\* or run_async_switch with the variables it captured
Worker(id, kind, phase, client, path, selection) ==
    [id |-> id, kind |-> kind, phase |-> phase, client |-> client, path |-> path,
     selection |-> selection]

\* the state a script run works on
World == [ss |-> session_state, clients |-> clients, workers |-> workers]

\* connect_to_server(server_path, provider, model_name), called by the
\* script when the Connect button was clicked
ConnectClicked(w, id, path, selection) ==
    LET c == Construct(ProviderEnum(selection[1]), selection[2], api_keys, {})
    IN  IF c.ok
        THEN [ss |-> [w.ss EXCEPT !.connection_error = None, !.processing = TRUE],
              clients |-> Append(w.clients, NewClient(c)),
              workers |-> w.workers \cup
                            { Worker(id, "connect", "run", Len(w.clients) + 1, path, selection) }]
        ELSE [w EXCEPT !.ss = [@ EXCEPT !.processing = FALSE,
                                        !.is_connected = FALSE,
                                        !.client = 0,
                                        !.available_tools = <<>>,
                                        !.connection_error = "ValueError",
                                        !.messages = Append(@, UiMsg("assistant", "unexpected_error", 0))]]

\* if not st.session_state.client or not hasattr(client, '_server_path')
SwitchRefused(ss, cs) == ss.client = 0

\* switch_model(provider, model_name), called by the script when the Switch
\* Model button was clicked
SwitchClicked(w, id, selection) ==
    IF SwitchRefused(w.ss, w.clients)
    THEN [w EXCEPT !.ss = [@ EXCEPT !.processing = FALSE,
                                    !.messages = Append(@, UiMsg("assistant", "unexpected_error", 0))]]
    ELSE [w EXCEPT !.ss = [@ EXCEPT !.processing = TRUE],
                   !.workers = @ \cup { Worker(id, "switch", "cleanup", 0,
                                               w.clients[w.ss.client].server_path, selection) }]

\* process_query(user_input), called by the script when Send was clicked
SendClicked(w, id) ==
    LET said == [w.ss EXCEPT !.messages = Append(@, UiMsg("user", "query", id))]
    IN  IF w.ss.client = 0
        THEN [w EXCEPT !.ss = [said EXCEPT !.processing = FALSE,
                                           !.messages = Append(@, UiMsg("assistant", "unexpected_error", id))]]
        ELSE [w EXCEPT !.ss = [said EXCEPT !.processing = TRUE],
                       !.workers = @ \cup { Worker(id, "query", "run", w.ss.client, NoPath, NoSelection) }]

\* one run of the script, top to bottom, with the button `click` reported as
\* clicked ("none": a rerun).  Each button is rendered with
\* disabled=st.session_state.processing as it is when the script reaches the
\* button, before the handler of that button runs; the Switch and Send
\* buttons exist only while is_connected.
ScriptRun(click, path, selection) ==
    LET id == clicks + 1
        w0 == World
        w1 == IF click = "connect" THEN ConnectClicked(w0, id, path, selection) ELSE w0
        w2 == IF click = "switch" /\ w1.ss.is_connected THEN SwitchClicked(w1, id, selection) ELSE w1
        w3 == IF click = "send" /\ w2.ss.is_connected THEN SendClicked(w2, id) ELSE w2
    IN  /\ page' = [connect |-> ~w0.ss.processing,
                    switch |-> w1.ss.is_connected /\ ~w1.ss.processing,
                    send |-> w2.ss.is_connected /\ ~w2.ss.processing]
        /\ session_state' = w3.ss
        /\ clients' = w3.clients
        /\ workers' = w3.workers
        /\ clicks' = IF click = "none" THEN clicks ELSE id

\* the variables of the command-line client, which the web UI does not use
cli_vars == << client_vars, closed, exit_status, calls, eof, pc, query, stdout, query_vars >>

\* the page is opened: initialize_session_state() and the first script run
UiInit ==
    /\ api_keys \in SUBSET ModelProvider
    /\ provider = None
    /\ model_name = None
    /\ full_model_name = None
    /\ anthropic = None
    /\ openai = None
    /\ session = None
    /\ exit_stack = None
    /\ stack = <<>>
    /\ closed = FALSE
    /\ exit_status = <<>>
    /\ calls = 0
    /\ eof = FALSE
    /\ pc = "ui"
    /\ query = <<>>
    /\ stdout = Out("none", <<>>)
    /\ NoQuery
    /\ session_state = InitialSessionState
    /\ clients = <<>>
    /\ workers = {}
    /\ page = [connect |-> TRUE, switch |-> FALSE, send |-> FALSE]
    /\ clicks = 0

\* a button can be clicked when the page shows it enabled
CanClick(button) == page[button] /\ clicks < MaxClicks

\* the script reruns without a click: st.rerun() while processing, or any
\* other interaction with the page
UiRerun ==
    /\ pc = "ui"
    /\ ScriptRun("none", NoPath, NoSelection)
    /\ UNCHANGED << api_keys, cli_vars >>

\* "Connect to Server" is clicked
UiConnectButton ==
    /\ pc = "ui"
    /\ CanClick("connect")
    /\ \E path \in UiPaths, selection \in UiSelections : ScriptRun("connect", path, selection)
    /\ UNCHANGED << api_keys, cli_vars >>

\* "Switch Model" is clicked
UiSwitchButton ==
    /\ pc = "ui"
    /\ CanClick("switch")
    /\ \E selection \in UiSelections : ScriptRun("switch", NoPath, selection)
    /\ UNCHANGED << api_keys, cli_vars >>

\* "Send" is clicked with a message typed
UiSendButton ==
    /\ pc = "ui"
    /\ CanClick("send")
    /\ ScriptRun("send", NoPath, NoSelection)
    /\ UNCHANGED << api_keys, cli_vars >>

\* the thread moves on to its next statement
Moved(w, phase) == (workers \ {w}) \cup { [w EXCEPT !.phase = phase] }

\* run_async_connection up to its finally: client.connect_to_server, then
\* the session state is set for the success or for the failure
WorkerConnect ==
    /\ pc = "ui"
    /\ \E w \in workers, outcome \in ConnectOutcomes :
         /\ w.kind = "connect"
         /\ w.phase = "run"
         /\ clients' = [clients EXCEPT ![w.client] = ClientConnected(@, w.path, outcome)]
         /\ session_state' =
              IF ConnectRaises(w.path, outcome)
              THEN [session_state EXCEPT
                      !.connection_error = ConnectError(w.path, outcome),
                      !.is_connected = FALSE,
                      !.client = 0,
                      !.available_tools = <<>>,
                      !.messages = Append(@, UiMsg("assistant", "connect_error", 0))]
              ELSE [session_state EXCEPT
                      !.client = w.client,
                      !.is_connected = TRUE,
                      !.available_tools = ServerTools,
                      !.connection_error = None,
                      !.messages = Append(@, UiMsg("assistant", "connected", 0))]
         /\ workers' = Moved(w, "finally")
    /\ UNCHANGED << api_keys, cli_vars, page, clicks >>

\* run_async_switch, first statement: the client in the session state at
\* that moment is cleaned up
WorkerSwitchCleanup ==
    /\ pc = "ui"
    /\ \E w \in workers :
         /\ w.kind = "switch"
         /\ w.phase = "cleanup"
         /\ clients' = IF session_state.client # 0
                       THEN [clients EXCEPT ![session_state.client] = ClientCleanedUp(@)]
                       ELSE clients
         /\ workers' = Moved(w, "connect")
    /\ UNCHANGED << api_keys, cli_vars, session_state, page, clicks >>

\* st.session_state.client = client, and the "Switched to" message
AfterSwitch(ss, new) ==
    [ss EXCEPT !.client = new, !.messages = Append(@, UiMsg("assistant", "switched", 0))]

\* run_async_switch after the cleanup: a new client is constructed and
\* connected to the server path of the old one, and replaces it; when either
\* raises, only the error message is added
WorkerSwitchConnect ==
    /\ pc = "ui"
    /\ \E w \in workers, outcome \in ConnectOutcomes :
         /\ w.kind = "switch"
         /\ w.phase = "connect"
         /\ LET c == Construct(ProviderEnum(w.selection[1]), w.selection[2], api_keys, {})
                new == Len(clients) + 1
                failed == [session_state EXCEPT
                             !.messages = Append(@, UiMsg("assistant", "switch_error", 0))]
            IN  IF ~c.ok
                THEN /\ clients' = clients
                     /\ session_state' = failed
                ELSE /\ clients' = Append(clients, ClientConnected(NewClient(c), w.path, outcome))
                     /\ session_state' = IF ConnectRaises(w.path, outcome) THEN failed
                                         ELSE AfterSwitch(session_state, new)
         /\ workers' = Moved(w, "finally")
    /\ UNCHANGED << api_keys, cli_vars, page, clicks >>

\* run_async_query up to its finally: client.process_query on the client
\* captured at the click, then the response or the error is appended
WorkerQuery ==
    /\ pc = "ui"
    /\ \E w \in workers :
         /\ w.kind = "query"
         /\ w.phase = "run"
         /\ \E outcome \in QueryOutcomes(clients[w.client]) :
              session_state' =
                [session_state EXCEPT
                   !.messages = Append(@, UiMsg("assistant",
                                                IF outcome = "returns" THEN "response" ELSE "error",
                                                w.id))]
         /\ workers' = Moved(w, "finally")
    /\ UNCHANGED << api_keys, cli_vars, clients, page, clicks >>

\* (the flag left as it is when the thread ends)
ProcessingAfterWorkerKept(ss) == ss.processing

\* finally: st.session_state.processing = False
ProcessingAfterWorker(ss) == FALSE

\* the finally clause of a thread, after which the thread ends
WorkerFinally ==
    /\ pc = "ui"
    /\ \E w \in workers :
         /\ w.phase = "finally"
         /\ session_state' = [session_state EXCEPT !.processing = ProcessingAfterWorker(session_state)]
         /\ workers' = workers \ {w}
    /\ UNCHANGED << api_keys, cli_vars, clients, page, clicks >>

UiNext ==
    \/ UiRerun
    \/ UiConnectButton
    \/ UiSwitchButton
    \/ UiSendButton
    \/ WorkerConnect
    \/ WorkerSwitchCleanup
    \/ WorkerSwitchConnect
    \/ WorkerQuery
    \/ WorkerFinally

UiSpec == UiInit /\ [][UiNext]_vars

\* a started thread is scheduled until it ends, given that every external
\* call it makes returns or raises
UiFairSpec ==
    /\ UiInit
    /\ [][UiNext]_vars
    /\ WF_vars(WorkerConnect)
    /\ WF_vars(WorkerSwitchCleanup)
    /\ WF_vars(WorkerSwitchConnect)
    /\ WF_vars(WorkerQuery)
    /\ WF_vars(WorkerFinally)

(* ------------------------------------------------------------------ *)
(* Properties                                                          *)
(* ------------------------------------------------------------------ *)

\* the request ids of the tool requests an assistant message carries
ToolRequestIds(m) ==
    IF m.kind \in {"blocks", "tool_calls"}
    THEN { m.blocks[k].id : k \in { j \in 1..Len(m.blocks) :
                                      m.kind = "tool_calls" \/ m.blocks[j].type = "tool_use" } }
    ELSE {}

\* m is a tool-result message for request id i
IsResultFor(m, i) == m.kind \in {"tool_result", "tool"} /\ m.id = i

\* every tool request of an assistant message has exactly one tool-result
\* message with its id, and that message comes after the assistant message
WellFormed(conv) ==
    \A k \in 1..Len(conv) : \A i \in ToolRequestIds(conv[k]) :
        /\ Cardinality({ j \in 1..Len(conv) : IsResultFor(conv[j], i) }) = 1
        /\ \E j \in (k + 1)..Len(conv) : IsResultFor(conv[j], i)

\* the conversation as it stands, with the shared list written out
Conversation == OnWire(messages, assistant_message_content)

\* C1: every conversation handed to a provider call, and the conversation at
\* return, holds for every tool request of an assistant message exactly one
\* tool-result message with the same request id, after that message.
C1_WellFormedConversation ==
    /\ WellFormed(wire)
    /\ pc = "returned" => WellFormed(Conversation)

\* the tool requests a provider response carries
HasToolRequests(r) ==
    \/ r.kind = "anthropic" /\ \E k \in 1..Len(r.content) : r.content[k].type = "tool_use"
    \/ r.kind = "openai" /\ r.tool_calls # <<>>

AllOk(log) == \A k \in 1..Len(log) : log[k]

AllToolsOk == \A k \in 1..Len(tool_log) : tool_log[k].ok

\* C2: process_query returns only when the most recent provider response
\* held no tool requests: tools a follow-up response requests are executed and
\* the provider is invoked again before the return.  Stated for queries in
\* which every provider call and every tool call succeeded and the response
\* at hand is a follow-up response.
C2_ReturnsOnlyAfterFinalResponse ==
    (pc = "returned" /\ Len(provider_log) >= 2 /\ AllOk(provider_log) /\ AllToolsOk)
        => ~HasToolRequests(response)

\* C3: every provider call is sent a conversation that holds a tool-result
\* entry for each tool call made so far in the query, the failed ones
\* included (a failure becomes a tool-result entry).
C3_FailureBecomesToolResult ==
    [][ Len(provider_log') > Len(provider_log)
          => \A k \in 1..Len(tool_log) :
                \E j \in 1..Len(wire') : IsResultFor(wire'[j], tool_log[k].id) ]_vars

\* a follow-up provider call of the current query has failed
FollowUpFailed == \E k \in 2..Len(provider_log) : ~provider_log[k]

\* C4: once a follow-up provider call has failed, the query makes no
\* further call_tool call and no further provider call.
C4_FollowUpFailureEndsQuery ==
    [][ FollowUpFailed
          => /\ Len(tool_log') <= Len(tool_log)
             /\ Len(provider_log') <= Len(provider_log) ]_vars

\* the ids of the tool requests of the first response that the loop is to
\* hand to call_tool, in order: the tool_use blocks, or the tool calls
\* whose arguments decode
RECURSIVE CallableIds(_, _)
CallableIds(kind, reqs) ==
    IF reqs = <<>> THEN <<>>
    ELSE LET r == Head(reqs)
             callable == IF kind = "anthropic" THEN r.type = "tool_use"
                         ELSE JsonLoads(r.arguments).ok
         IN  (IF callable THEN << r.id >> ELSE <<>>) \o CallableIds(kind, Tail(reqs))

AttemptedIds == [k \in 1..Len(tool_log) |-> tool_log[k].id]

IsPrefix(a, b) == Len(a) <= Len(b) /\ a = SubSeq(b, 1, Len(a))

\* C5: a failing tool call never aborts the query: process_query raises only
\* before any tool was called, the tools called so far are always the first
\* tool requests of the response in order, and at return every tool request
\* of the response has been handed to call_tool, the ones after a failed
\* call included.
C5_ToolFailureDoesNotAbort ==
    /\ pc = "raised" => tool_log = <<>>
    /\ response.kind # "none" => IsPrefix(AttemptedIds, CallableIds(response.kind, iterating))
    /\ pc = "returned" => AttemptedIds = CallableIds(response.kind, iterating)

\* a tool call failed and a later tool request of the same response was
\* then called
C5_Witness ==
    /\ pc = "returned"
    /\ \E j, k \in 1..Len(tool_log) : j < k /\ ~tool_log[j].ok

\* position k of the first response's tool calls was skipped as
\* undecodable: no call_tool for it, and an error line naming its tool
SkippedWithError(k) ==
    /\ \A j \in 1..Len(tool_log) : tool_log[j].id # iterating[k].id
    /\ \E j \in 1..Len(final_text) :
          final_text[j].kind = "error_parse" /\ final_text[j].name = iterating[k].name

\* position k was executed, and its request and its outcome are in the
\* conversation
ExecutedAndRecorded(k) ==
    /\ \E j \in 1..Len(tool_log) : tool_log[j].id = iterating[k].id
    /\ \E j \in 1..Len(messages) : iterating[k].id \in ToolRequestIds(messages[j])
    /\ \E j \in 1..Len(messages) : IsResultFor(messages[j], iterating[k].id)

\* C6: in the OpenAI path, when the arguments of one tool call of a response
\* do not decode, only that call is skipped (never handed to call_tool, an
\* error line naming the tool in the output); every other tool call of the
\* response is executed and its request and outcome are in the conversation.
C6_UndecodableSkipsOnlyThatCall ==
    (pc = "returned" /\ response.kind = "openai"
       /\ \E k \in 1..Len(iterating) : ~JsonLoads(iterating[k].arguments).ok)
    => \A k \in 1..Len(iterating) :
          IF JsonLoads(iterating[k].arguments).ok
          THEN ExecutedAndRecorded(k)
          ELSE SkippedWithError(k)

\* the text a response carries: the texts of its text blocks in order, or
\* its message content
RECURSIVE BlockTexts(_)
BlockTexts(blocks) ==
    IF blocks = <<>> THEN <<>>
    ELSE (IF Head(blocks).type = "text" THEN << Line("text", None, << Head(blocks).text >>) >> ELSE <<>>)
         \o BlockTexts(Tail(blocks))

ResponseText(r) ==
    IF r.kind = "anthropic" THEN BlockTexts(r.content)
    ELSE IF r.text \in {None, ""} THEN <<>>
    ELSE << Line("text", None, << r.text >>) >>

\* the empty string, as process_query returns it
EmptyOutput == << Line("text", None, << "" >>) >>

\* the response the loop walks held no tool request
FirstHadNoToolRequests ==
    \/ response.kind = "anthropic" /\ \A k \in 1..Len(iterating) : iterating[k].type # "tool_use"
    \/ response.kind = "openai" /\ iterating = <<>>

\* C7: when the first provider response of a query holds no tool requests,
\* process_query makes exactly one provider call and no call_tool call, and
\* returns the response's text (the empty string when it has none).
C7_NoToolsOneRoundTrip ==
    (pc = "returned" /\ FirstHadNoToolRequests)
    => /\ provider_log = << TRUE >>
       /\ tool_log = <<>>
       /\ result = (IF ResponseText(response) = <<>> THEN EmptyOutput ELSE ResponseText(response))

\* a query answered with text and no tool request has returned, in the
\* OpenAI format
C7_Witness ==
    /\ pc = "returned"
    /\ provider = OPENAI
    /\ response.kind = "openai"
    /\ response.tool_calls = <<>>
    /\ response.text \in Texts
    /\ Len(provider_log) = 1

\* the provider field that is active for provider p
ActiveClient(p, a, o) == IF p = ANTHROPIC THEN a ELSE o

\* main() is inside chat_loop
InChatLoop == pc \notin {"main", "connect", "exited", "done"}

\* the step is a successful switch
SwitchStep == pc = "input" /\ stdout'.kind = "switched"

\* C8: a successful `use` command sets the provider and the model name to
\* the ones named (one of the two changes), makes a new provider client the
\* active one, and leaves the tool-hosting connection alone: session and
\* exit_stack are the same objects, not closed, after any sequence of
\* switches.
C8_SwitchKeepsConnection ==
    /\ [](InChatLoop => /\ session = "session_1"
                         /\ exit_stack = "exit_stack_1"
                         /\ stack = << "stdio_client", "ClientSession" >>
                         /\ ~closed)
    /\ [][ SwitchStep
             => /\ provider' = (IF Lower(UseParts(query')[1]) = "openai" THEN OPENAI ELSE ANTHROPIC)
                /\ model_name' = (IF Len(UseParts(query')) > 1 THEN UseParts(query')[2] ELSE None)
                /\ << provider', model_name' >> # << provider, model_name >>
                /\ ActiveClient(provider', anthropic', openai') \notin {None, anthropic, openai}
                /\ ActiveClient(provider', openai', anthropic') = None
                /\ session' = session
                /\ exit_stack' = exit_stack
                /\ stack' = stack
                /\ closed' = closed ]_vars

\* a switch to the other provider has been made, with the connection open
C8_Witness ==
    /\ stdout.kind = "switched"
    /\ provider = OPENAI
    /\ model_name = "gpt-4"
    /\ full_model_name = "gpt-4o"
    /\ openai # None
    /\ session = "session_1"
    /\ ~closed

\* the line read is a `use` command naming a provider outside the allow-list
UnsupportedUseLine(line) ==
    /\ Len(line) >= 2
    /\ line[1] \in {"use", "USE"}
    /\ Lower(SplitColon(Tail(line))[1]) \notin {"openai", "anthropic"}

\* C9: a `use` command whose provider is not openai or anthropic leaves
\* provider, model_name, full_model_name and both provider client fields
\* unchanged, reports the error, sends nothing to the provider, and the loop
\* goes on to read the next line.  (A step that prints "Exiting..." is an
\* interrupt and a step with end-of-input a failed read, not the reading
\* of a line.)
C9_UnsupportedProviderChangesNothing ==
    [][ (pc = "input" /\ stdout'.kind # "exiting" /\ ~eof' /\ UnsupportedUseLine(query'))
          => /\ UNCHANGED << provider, model_name, full_model_name, anthropic, openai >>
             /\ UNCHANGED << session, exit_stack, closed >>
             /\ stdout'.kind = "unsupported_provider"
             /\ UNCHANGED << provider_log, tool_log, wire, messages >>
             /\ pc' = "input" ]_vars

\* an unsupported provider has been reported and the loop is reading again
C9_Witness ==
    /\ stdout.kind = "unsupported_provider"
    /\ query = << "use", "gemini", ":", "gpt-4" >>
    /\ pc = "input"

\* C10: a line of the form `use <provider>[:<model>]` is handled as a switch
\* command and never passed to process_query as a query, in every client
\* state.
C10_UseLineIsNeverAQuery ==
    pc = "process_query" => ~(Len(query) >= 2 /\ query[1] \in {"use", "USE"})

\* C11: when the first provider call of a query fails, process_query is
\* raising to its caller, it has produced no output, and no tool was called.
C11_FirstCallFailurePropagates ==
    (provider_log # <<>> /\ ~provider_log[1])
        => /\ pc = "raised"
           /\ provider_log = << FALSE >>
           /\ result = <<>>
           /\ final_text = <<>>
           /\ tool_log = <<>>

C11_Witness == pc = "raised" /\ provider_log = << FALSE >> /\ wire = << UserMsg(query) >>

\* a step in which a provider call is made
ProviderCallStep == Len(provider_log') > Len(provider_log)

\* the tool schema built from the session's advertised tools
ToolSchema == IF provider = ANTHROPIC THEN AnthropicTools(ServerTools) ELSE OpenAITools(ServerTools)

\* C13: every provider call of a query, the initial one and each follow-up,
\* is sent the full current conversation and the tool schema built from the
\* session's advertised tools.
C13_EveryCallCarriesConversationAndTools ==
    [][ ProviderCallStep => /\ wire' = Conversation'
                            /\ wire_tools' = ToolSchema ]_vars

\* C14: the conversation sent on a provider call extends the conversation
\* sent on the previous provider call of the same query: the earlier turns
\* are unchanged and at least one turn was appended.
C14_ConversationAppendOnly ==
    [][ (ProviderCallStep /\ provider_log # <<>>)
          => /\ IsPrefix(wire, wire')
             /\ Len(wire') > Len(wire) ]_vars

\* C12: on the first provider call of every query, whatever queries came
\* before on the same client, the conversation sent is exactly one turn, the
\* user turn of the query being processed.
C12_HistoryResetPerQuery ==
    [][ (ProviderCallStep /\ provider_log = <<>>) => wire' = << UserMsg(query) >> ]_vars

\* the first provider call of a second query on the same client has been
\* made
C12_Witness ==
    /\ calls = 2
    /\ session # None
    /\ Len(provider_log) = 1
    /\ wire = << UserMsg(query) >>

\* a step in which call_tool is invoked
ToolCallStep == Len(tool_log') > Len(tool_log)

\* the number of call_tool invocations that returned
OkCount(log) == Cardinality({ k \in 1..Len(log) : log[k].ok })

\* the position in the response at hand of the request with id i
PositionOf(i) == CHOOSE j \in 1..Len(iterating) : iterating[j].id = i

\* C15: the tool requests of a response are executed one at a time in the
\* order they appear: a step invokes call_tool once, on a request later in the
\* response than every request invoked before, and only when every earlier
\* provider call has completed, the follow-up of each earlier successful tool
\* included; a provider call is a step of its own, which invokes no tool.
C15_ToolsSequentialInOrder ==
    [][ /\ ToolCallStep
            => /\ Len(tool_log') = Len(tool_log) + 1
               /\ provider_log' = provider_log
               /\ Len(provider_log) = 1 + OkCount(tool_log)
               /\ tool_log'[Len(tool_log')].id = iterating[idx].id
               /\ \A k \in 1..Len(tool_log) : PositionOf(tool_log[k].id) < idx
        /\ ProviderCallStep
            => /\ Len(provider_log') = Len(provider_log) + 1
               /\ tool_log' = tool_log ]_vars

\* two tools of one response have been called, the second after the follow-up
\* call of the first
C15_Witness ==
    /\ Len(tool_log) = 2
    /\ tool_log[1].ok
    /\ Len(provider_log) >= 2
    /\ PositionOf(tool_log[1].id) < PositionOf(tool_log[2].id)

\* the tool requests of the response the loop walks
ToolRequests ==
    IF response.kind = "anthropic"
    THEN SelectSeq(iterating, LAMBDA b : b.type = "tool_use")
    ELSE iterating

\* the arguments call_tool is given for request r
ArgsOf(r) == IF response.kind = "anthropic" THEN r.input ELSE JsonLoads(r.arguments).value

\* the response at hand is text only
IsFinalText(r) ==
    \/ r.kind = "anthropic" /\ Len(r.content) = 1 /\ r.content[1].type = "text"
    \/ r.kind = "openai" /\ Truthy(r.text) /\ r.tool_calls = <<>>

FinalTextOf(r) == IF r.kind = "anthropic" THEN r.content[1].text ELSE r.text

\* the query returned after one tool request that succeeded and a follow-up
\* response that is final text
OneToolThenFinalText ==
    /\ pc = "returned"
    /\ Len(ToolRequests) = 1
    /\ Len(tool_log) = 1
    /\ tool_log[1].ok
    /\ provider_log = << TRUE, TRUE >>
    /\ IsFinalText(response)

\* the tool-call trace line, the tool-result trace line and the final text
TraceThenFinalText ==
    { << Line("calling", ToolRequests[1].name, << ArgsOf(ToolRequests[1]) >>),
         Line("result", None, JoinParts(res)),
         Line("text", None, << FinalTextOf(response) >>) >> : res \in ToolResults }

\* the output lines of the text blocks among bs
TextLines(bs) ==
    [k \in 1..Len(SelectSeq(bs, LAMBDA b : b.type = "text")) |->
        Line("text", None, << SelectSeq(bs, LAMBDA b : b.type = "text")[k].text >>)]

\* the text the first response carries before its tool request
TextBefore ==
    IF response.kind = "anthropic"
    THEN { TextLines(SubSeq(iterating, 1, PositionOf(ToolRequests[1].id) - 1)) }
    ELSE {<<>>} \cup { << Line("text", None, << t >>) >> : t \in Texts }

\* the text the first response carries after its tool request
TextAfter ==
    IF response.kind = "anthropic"
    THEN TextLines(SubSeq(iterating, PositionOf(ToolRequests[1].id) + 1, Len(iterating)))
    ELSE <<>>

TraceLines(lines) ==
    [k \in 1..Len(SelectSeq(lines, LAMBDA l : l.kind \in {"calling", "result", "error_tool"})) |->
        LET l == SelectSeq(lines, LAMBDA x : x.kind \in {"calling", "result", "error_tool"})[k]
        IN  << l.kind, l.name >>]

\* the trace lines the invocations of log call for: two on success, one on
\* failure
RECURSIVE ExpectedTrace(_)
ExpectedTrace(log) ==
    IF log = <<>> THEN <<>>
    ELSE (IF Head(log).ok
          THEN << << "calling", Head(log).name >>, << "result", None >> >>
          ELSE << << "error_tool", Head(log).name >> >>) \o ExpectedTrace(Tail(log))

CountKind(lines, kind) == Cardinality({ k \in 1..Len(lines) : lines[k].kind = kind })

\* C17: the trace lines of the output are, invocation by invocation, one
\* `[Calling tool` line and one `[Tool result` line for a call_tool that
\* returned, and one `[Error calling tool` line alone for a call_tool that
\* raised; after one success and one failure the output holds exactly one
\* `[Tool result` line and exactly one `[Error calling tool` line.
C17_TraceLineShapes ==
    /\ TraceLines(final_text) = ExpectedTrace(tool_log)
    /\ pc = "returned" => TraceLines(result) = ExpectedTrace(tool_log)
    /\ (pc = "returned" /\ Len(tool_log) = 2 /\ OkCount(tool_log) = 1)
          => /\ CountKind(result, "result") = 1
             /\ CountKind(result, "error_tool") = 1
             /\ CountKind(result, "calling") = 1

\* a query with one tool that returned and one that raised has returned
C17_Witness ==
    /\ pc = "returned"
    /\ Len(tool_log) = 2
    /\ ~tool_log[1].ok
    /\ tool_log[2].ok
    /\ CountKind(result, "error_tool") = 1

\* the constructor has returned a client
ClientConstructed == exit_stack # None

\* C18: in main(), once the client is constructed, every way out of the try
\* block (connect failure, quit, interrupt) leads to cleanup(): when main()
\* has left the try block cleanup is the step to take, and when the process
\* has ended the exit stack is closed and holds no context.  Nothing closes
\* it earlier: while the chat loop runs, after failing queries too, the
\* session and its contexts are the ones opened at connect time.
C18_ScopedRelease ==
    /\ (pc = "exited" /\ ClientConstructed) => ENABLED MainCleanup
    /\ (pc = "done" /\ ClientConstructed) => (closed /\ stack = <<>>)
    /\ closed => pc = "done"
    /\ pc \in {"input", "process_query", "first_call", "a_loop", "a_followup",
               "o_loop", "o_followup", "returned", "raised"}
          => /\ session = "session_1"
             /\ stack = << "stdio_client", "ClientSession" >>

\* the process has ended after a connect that failed with the session
\* already entered, and cleanup has closed it
C18_Witness ==
    /\ pc = "done"
    /\ stdout = Out("fatal", << "handshake_fails" >>)
    /\ session = "session_1"
    /\ closed
    /\ stack = <<>>

\* the path ends in neither .py nor .js
BadScriptPath(path) ==
    /\ ~EndsWith(path, << ".", "p", "y" >>)
    /\ ~EndsWith(path, << ".", "j", "s" >>)

\* C19: connect_to_server with a path that ends in neither .py nor .js
\* raises, whatever the server would have done: self.session stays None and
\* nothing is entered on the exit stack; and process_query on a client whose
\* session is None raises without a provider call or a tool call.
C19_BadScriptFailsBeforeConnecting ==
    /\ [][ \A path \in ScriptPaths, outcome \in ConnectOutcomes :
             (BadScriptPath(path) /\ ApiConnectTo(path, outcome))
               => /\ stdout'.kind = "connect_raised"
                  /\ session' = None
                  /\ stack' = <<>>
                  /\ ~closed' ]_vars
    /\ [][ (pc = "process_query" /\ session = None)
             => /\ pc' = "raised"
                /\ session' = None
                /\ provider_log' = <<>>
                /\ tool_log' = <<>> ]_vars

\* connect_to_server has raised for the script extension and the client is
\* as it was constructed
C19_Witness ==
    /\ pc = "api"
    /\ stdout = Out("connect_raised", << "ValueError" >>)
    /\ session = None
    /\ stack = <<>>

\* main() has ended after the constructor raised
EndedOnMisconfiguration == pc = "done" /\ ~ClientConstructed /\ stdout.kind # "usage"

\* C20: when the constructor raises at startup (the credential of the
\* selected provider is missing), main() prints the error and the process
\* exits with a non-zero status, with no connection opened and the chat loop
\* never entered.
C20_FatalMisconfigurationExitsNonZero ==
    EndedOnMisconfiguration
        => /\ stdout.kind = "fatal"
           /\ exit_status # <<>>
           /\ exit_status # << 0 >>
           /\ session = None
           /\ stack = <<>>
           /\ query = <<>>

\* C21: once a client is constructed, and after any `use` commands, exactly
\* one of the fields anthropic and openai holds a provider client, the one of
\* self.provider; every provider call of a query goes through that client,
\* on the path of that provider.
C21_ExactlyOneProviderSession ==
    /\ ClientConstructed
          => /\ provider \in ModelProvider
             /\ ActiveClient(provider, anthropic, openai) # None
             /\ ActiveClient(provider, openai, anthropic) = None
    /\ pc \in {"a_loop", "a_followup"} => provider = ANTHROPIC /\ response.kind = "anthropic"
    /\ pc \in {"o_loop", "o_followup"} => provider = OPENAI /\ response.kind = "openai"
    /\ provider_log # <<>>
          => /\ wire_client # None
             /\ wire_client = ActiveClient(provider, anthropic, openai)

\* after a switch from one provider to the other, a provider call of a query
\* has gone through the new client
C21_Witness ==
    /\ provider = OPENAI
    /\ openai = "llm_client_2"
    /\ anthropic = None
    /\ wire_client = "llm_client_2"
    /\ pc = "o_loop"

\* the model identifier the claim derives for model name m under provider p
WireModelFor(p, m) ==
    LET d == IF p = ANTHROPIC THEN ANTHROPIC_MODELS ELSE OPENAI_MODELS
    IN  IF \E kv \in d : kv[1] = m THEN (CHOOSE kv \in d : kv[1] = m)[2] ELSE m

\* the model given on the `use` line read, None when it gives none
GivenModel(line) == IF Len(UseParts(line)) > 1 THEN UseParts(line)[2] ELSE None

\* C22: whenever the client holds a model name, the identifier sent as
\* `model` on provider calls is the map's value for that name under the
\* active provider when the name is a key, and the name itself otherwise: a
\* switch that names a model installs that name and its identifier, and a
\* construction or switch fails only for a missing credential, never for the
\* model name.
C22_ModelIdentifierDerivation ==
    /\ []((ClientConstructed /\ model_name # None)
            => full_model_name = WireModelFor(provider, model_name))
    /\ [](provider_log # <<>> => wire_model = full_model_name)
    /\ [][ (SwitchStep /\ Truthy(GivenModel(query')))
             => /\ model_name' = GivenModel(query')
                /\ full_model_name' = WireModelFor(provider', GivenModel(query')) ]_vars
    /\ [][ (pc = "input" /\ stdout'.kind = "switch_error")
             => (IF Lower(UseParts(query')[1]) = "openai" THEN OPENAI ELSE ANTHROPIC) \notin api_keys ]_vars
    /\ [][ (pc = "main" /\ stdout'.kind = "fatal") => api_keys # ModelProvider ]_vars

\* a provider call has been sent with a model name that is no key of the
\* active provider's map, verbatim
C22_Witness ==
    /\ provider = OPENAI
    /\ model_name = "my-model"
    /\ provider_log # <<>>
    /\ wire_model = "my-model"

\* the description read back for a descriptor: the empty string when absent
ReadBackDescription(d) == IF d.description = None THEN "" ELSE d.description

\* C23: for every list of tool descriptors the wire schema of either provider
\* has one entry per descriptor, in order, and the name, the description and
\* the input schema read back from an entry are the descriptor's, an absent
\* description being read back as the empty string.
C23_SchemaConversionLossless ==
    /\ pc = "schema_anthropic"
          => /\ Len(wire_tools) = Len(tool_response)
             /\ \A k \in 1..Len(tool_response) :
                  /\ DOMAIN wire_tools[k] = {"name", "description", "input_schema"}
                  /\ wire_tools[k].name = tool_response[k].name
                  /\ wire_tools[k].description = ReadBackDescription(tool_response[k])
                  /\ wire_tools[k].input_schema = tool_response[k].inputSchema
    /\ pc = "schema_openai"
          => /\ Len(wire_tools) = Len(tool_response)
             /\ \A k \in 1..Len(tool_response) :
                  /\ DOMAIN wire_tools[k] = {"type", "function"}
                  /\ wire_tools[k].type = "function"
                  /\ DOMAIN wire_tools[k].function = {"name", "description", "parameters"}
                  /\ wire_tools[k].function.name = tool_response[k].name
                  /\ wire_tools[k].function.description = ReadBackDescription(tool_response[k])
                  /\ wire_tools[k].function.parameters = tool_response[k].inputSchema

\* two different descriptors, the first without description, have been
\* converted to the OpenAI shape
C23_Witness ==
    /\ pc = "schema_openai"
    /\ Len(tool_response) = 2
    /\ tool_response[1].description = None
    /\ tool_response[1].name # tool_response[2].name
    /\ wire_tools[1].function.description = ""

\* the provider call of this step returned a response
ProviderReturnStep == ProviderCallStep /\ provider_log'[Len(provider_log')]

\* the lines this step appended to final_text
Appended == SubSeq(final_text', Len(final_text) + 1, Len(final_text'))

\* C24: every text a provider response of the query carries is in the
\* output: the text of an OpenAI response and of an Anthropic follow-up
\* response, wherever it stands among the blocks, is appended to the output
\* when the response arrives, and at return the output holds every text block
\* of the Anthropic response the loop walked.
C24_EveryResponseTextInOutput ==
    /\ [][ (ProviderReturnStep /\ (provider_log # <<>> \/ response'.kind = "openai"))
             => \A k \in 1..Len(ResponseText(response')) :
                  \E j \in 1..Len(Appended) : Appended[j] = ResponseText(response')[k] ]_vars
    /\ [](pc = "returned" /\ provider = ANTHROPIC
            => \A k \in 1..Len(BlockTexts(iterating)) :
                 \E j \in 1..Len(result) : result[j] = BlockTexts(iterating)[k])

\* the text of the parts of a tool result that have one, in order, one per
\* line; the empty string when no part has text
HasText(part) == part # "image"
TextOfResult(res) ==
    IF SelectSeq(res, HasText) = <<>> THEN << "" >> ELSE SelectSeq(res, HasText)

\* a step in which call_tool is invoked and returns
ToolOkStep == ToolCallStep /\ tool_log'[Len(tool_log')].ok

\* C25: on a successful tool call the result text of the trace line and of
\* the conversation's tool-result entry is the newline-joined text, in order,
\* of exactly the parts of the tool result that have a text field.
C25_ToolResultTextIsJoinOfTextParts ==
    [][ ToolOkStep
        => \E res \in ToolResults :
             /\ final_text'[Len(final_text')] = Line("result", None, TextOfResult(res))
             /\ messages'[Len(messages')].kind \in {"tool_result", "tool"}
             /\ messages'[Len(messages')].text = TextOfResult(res) ]_vars

C25_Witness ==
    /\ tool_log # <<>>
    /\ tool_log[Len(tool_log)].ok
    /\ \E k \in 1..Len(final_text) :
         final_text[k] = Line("result", None, << "Weather in Paris: sunny", "18C" >>)
    /\ \E k \in 1..Len(messages) :
         /\ messages[k].kind \in {"tool_result", "tool"}
         /\ messages[k].text = << "Weather in Paris: sunny", "18C" >>

\* UniversalMCPClient(provider, model) constructed afresh with the arguments
\* the `use` line names
FreshFor(line) == Construct(NewProvider(line), NewModel(line), api_keys, {})

\* C26: after a successful `use` switch the provider, model_name and
\* full_model_name equal those of a freshly constructed client with the same
\* provider and model arguments, so that full_model_name is a model
\* identifier, and every provider call is sent a model identifier.
C26_SwitchEqualsFreshConstruction ==
    /\ [][ SwitchStep
             => /\ provider' = FreshFor(query').provider
                /\ model_name' = FreshFor(query').model_name
                /\ full_model_name' = FreshFor(query').full_model_name
                /\ full_model_name' # None ]_vars
    /\ [][ ProviderCallStep => wire_model' # None ]_vars

\* the step is a `use` switch that failed
FailedSwitchStep == pc = "input" /\ stdout'.kind = "switch_error"

\* C27: a `use` switch that fails because the new provider client cannot be
\* constructed changes nothing: provider, model_name, full_model_name, both
\* provider client fields and the session are as before, an error is printed,
\* and the loop reads the next line, a query being served by the provider
\* client that was active before.
C27_FailedSwitchIsAtomic ==
    /\ [][ FailedSwitchStep
             => /\ NewProvider(query') \notin api_keys
                /\ provider' = provider
                /\ model_name' = model_name
                /\ full_model_name' = full_model_name
                /\ anthropic' = anthropic
                /\ openai' = openai
                /\ session' = session
                /\ stack' = stack
                /\ closed' = closed
                /\ pc' = "input" ]_vars
    /\ [](stdout.kind = "switch_error"
            => /\ ActiveClient(provider, anthropic, openai) # None
               /\ ActiveClient(provider, openai, anthropic) = None
               /\ session # None
               /\ ENABLED ChatQuery)
    /\ [][ (ProviderCallStep /\ InChatLoop)
             => wire_client' = ActiveClient(provider, anthropic, openai) ]_vars

C27_Witness ==
    /\ stdout.kind = "switch_error"
    /\ pc = "input"
    /\ IsUse(query)
    /\ NewProvider(query) # provider
    /\ NewProvider(query) \notin api_keys

\* process_query is running
InQuery == pc \in {"process_query", "first_call", "a_loop", "a_followup", "o_loop", "o_followup"}

\* a step of process_query
QueryStep ==
    \/ ProcessQueryStart \/ ProcessQueryListToolsFails
    \/ AnthropicFirstCall \/ AnthropicFirstCallFails \/ AnthropicText \/ AnthropicToolOk
    \/ AnthropicToolFails \/ AnthropicFollowUp \/ AnthropicFollowUpFails \/ AnthropicReturn
    \/ OpenAIFirstCall \/ OpenAIFirstCallFails \/ OpenAIArgumentsUndecodable \/ OpenAIToolOk
    \/ OpenAIToolFails \/ OpenAIFollowUp \/ OpenAIFollowUpFails \/ OpenAIReturn

\* how far process_query has come: before list_tools, before the first
\* provider call, in the loop over the first response, ended
Stage(at) ==
    CASE at = "process_query" -> 0
      [] at = "first_call" -> 1
      [] at \in {"a_loop", "a_followup", "o_loop", "o_followup"} -> 2
      [] OTHER -> 3

\* what is left of the loop: two per element not yet handled, one less when
\* the element's tool has been called and its follow-up call is due
Remaining(at, i, n) ==
    IF at \in {"a_loop", "o_loop"} THEN 2 * (n + 1 - i)
    ELSE IF at \in {"a_followup", "o_followup"} THEN 2 * (n + 1 - i) - 1
    ELSE 0

\* C28: process_query terminates when each external call returns or raises:
\* while it runs a step of it is always possible, every step brings it
\* closer to its end, and with n the number of tool requests in the first
\* provider response it makes at most n call_tool calls and at most 1 + n
\* provider calls, whatever the follow-up responses contain.
C28_ProcessQueryTerminatesWithinBounds ==
    /\ [](InQuery => /\ ENABLED QueryStep
                      /\ Remaining(pc, idx, Len(iterating)) >= 0)
    /\ [][ InQuery
             => \/ Stage(pc') > Stage(pc)
                \/ /\ Stage(pc') = Stage(pc)
                   /\ iterating' = iterating
                   /\ Remaining(pc', idx', Len(iterating')) < Remaining(pc, idx, Len(iterating)) ]_vars
    /\ [](/\ Len(tool_log) <= Len(ToolRequests)
           /\ Len(provider_log) <= 1 + Len(ToolRequests)
           /\ Len(provider_log) <= 1 + Len(tool_log))

C28_Witness ==
    /\ pc = "returned"
    /\ Len(ToolRequests) = MaxBlocks
    /\ Len(tool_log) = MaxBlocks
    /\ Len(provider_log) = 1 + MaxBlocks
    /\ HasToolRequests(response)

\* the step is a read of the next line that fails with end-of-input
EndOfInputStep == pc = "input" /\ ~eof /\ eof'

\* C29: chat_loop ends when its input is exhausted: once reading the next
\* line has failed with end-of-input the loop is left and does not go back
\* to reading.
C29_LoopEndsAtEndOfInput ==
    /\ [][ EndOfInputStep => pc' \in {"exited", "done"} ]_vars
    /\ [](eof => ~ENABLED ChatEOF)

\* the step is chat_loop's handler catching what process_query raised
QueryErrorStep == pc = "raised" /\ stdout'.kind # "exiting"

\* C30: a query that fails inside chat_loop does not end the interactive
\* session: the error is printed, the provider state and the tool-hosting
\* session are unchanged, and the loop goes on to read the next line, which
\* it can serve.
C30_FailedQueryKeepsSession ==
    /\ [][ QueryErrorStep
             => /\ stdout'.kind = "error"
                /\ pc' = "input"
                /\ provider' = provider
                /\ model_name' = model_name
                /\ full_model_name' = full_model_name
                /\ anthropic' = anthropic
                /\ openai' = openai
                /\ session' = session
                /\ exit_stack' = exit_stack
                /\ stack' = stack
                /\ closed' = closed
                /\ exit_status' = << >> ]_vars
    /\ [](pc = "raised" => ENABLED ChatPrintError)
    /\ []((pc = "input" /\ stdout.kind = "error" /\ ~eof)
            => /\ session # None
               /\ ~closed
               /\ ENABLED ChatQuery
               /\ ENABLED ChatUseSwitch \/ ENABLED ChatUseSwitchError \/ ENABLED ChatUseFallsThrough)

C30_Witness ==
    /\ pc = "input"
    /\ stdout.kind = "error"
    /\ ~eof
    /\ session # None
    /\ ~closed
    /\ query = << "What is the weather in Paris?" >>

\* the step is process_query starting on a client without a session
UnconnectedQueryStep == pc = "process_query" /\ session = None

Opened(cs) == { i \in 1..Len(cs) : cs[i].session # None }

Open(cs) == { i \in 1..Len(cs) : cs[i].stack # <<>> }

\* the step is a web UI switch that succeeds
UiSwitchedStep ==
    /\ Len(session_state'.messages) > Len(session_state.messages)
    /\ session_state'.messages[Len(session_state'.messages)].kind = "switched"

\* C32: a switch through the web UI replaces the active provider and model
\* without closing or reopening the tool-hosting connection: the client in
\* use after the switch has the provider and model selected, no connection
\* has been opened by the switch, and the connection that was in use before
\* it, opened at connect time, is open and is the one in use after it.
C32_UiSwitchKeepsConnection ==
    [][ UiSwitchedStep
        => /\ \E w \in workers :
                /\ w.kind = "switch"
                /\ clients'[session_state'.client].provider = ProviderEnum(w.selection[1])
                /\ clients'[session_state'.client].model_name = w.selection[2]
           /\ Opened(clients') = Opened(clients)
           /\ session_state.client \in Open(clients')
           /\ session_state'.client = session_state.client ]_vars

\* C33: in the web UI, whenever session_state.is_connected is true,
\* session_state.client is a client whose tool-hosting connection is open:
\* connected and not cleaned up.
C33_ConnectedMeansOpenClient ==
    (pc = "ui" /\ session_state.is_connected)
      => /\ session_state.client # 0
         /\ session_state.client \in Open(clients)
         /\ ~clients[session_state.client].closed

\* the workers that have not reached the end of their work
AtWork == { w \in workers : w.phase # "finally" }

\* the button that starts a worker of a kind
ButtonOf(kind) == IF kind = "query" THEN "send" ELSE kind

\* C34: in the web UI at most one background worker runs at a time, and no
\* two workers use one client at the same time: a worker is started only by
\* the click of a button the page showed enabled, rendered while processing
\* was false, with processing true from then on, and while a worker is at
\* work processing is true and no other worker is at work.
C34_OneWorkerAtATime ==
    /\ [][ \A w \in workers' :
             (clicks' > clicks /\ w.id = clicks')
               => /\ page[ButtonOf(w.kind)]
                  /\ session_state'.processing ]_vars
    /\ [](pc = "ui" => /\ Cardinality(AtWork) <= 1
                       /\ (AtWork # {} => session_state.processing)
                       /\ \A v, w \in AtWork :
                            (v.kind = "query" /\ w.kind = "query" /\ v.client = w.client) => v = w)

\* the worker started by click i is running
Running_(i) == \E w \in workers : w.id = i

\* the positions in the chat history of the user message of query i and of
\* the assistant messages that answer it
Asked(i) ==
    { k \in 1..Len(session_state.messages) :
        session_state.messages[k] = UiMsg("user", "query", i) }

Answers(i) ==
    { k \in 1..Len(session_state.messages) :
        session_state.messages[k].role = "assistant" /\ session_state.messages[k].of = i }

\* C35: in the web UI every started action clears session_state.processing
\* in the end, whether its worker succeeds or fails: the worker started by a
\* click ends, with processing false as it ends, and a click that starts no
\* worker leaves processing false; and every submitted query has its user
\* message in the chat history once, followed by at most one assistant
\* message for it, and by exactly one once its worker has ended.
C35_ProcessingClearedAndQueryAnswered ==
    /\ \A i \in 1..MaxClicks :
         Running_(i) ~> (~Running_(i) /\ ~session_state.processing)
    /\ [][ (\E w \in workers : w \notin workers' /\ \A v \in workers' : v.id # w.id)
             => ~session_state'.processing ]_vars
    /\ [][ (clicks' > clicks /\ workers' = workers
              /\ Len(session_state'.messages) > Len(session_state.messages))
             => ~session_state'.processing ]_vars
    /\ [](\A i \in 1..MaxClicks :
            /\ Cardinality(Asked(i)) <= 1
            /\ Cardinality(Answers(i)) <= 1
            /\ \A a \in Answers(i) : \E q \in Asked(i) : q < a
            /\ (Asked(i) # {} /\ ~Running_(i)) => Cardinality(Answers(i)) = 1
            /\ (Asked(i) # {} /\ Running_(i))
                 => (Answers(i) = {} <=> \E w \in workers : w.id = i /\ w.phase = "run"))

C35_Witness ==
    /\ pc = "ui"
    /\ workers = {}
    /\ ~session_state.processing
    /\ \E i \in 1..MaxClicks :
         /\ Asked(i) # {}
         /\ \E a \in Answers(i) : session_state.messages[a].kind = "response"

\* C36: in the web UI no open tool-hosting connection is orphaned: when no
\* worker is running, every connection that has been opened is the
\* connection of the current session_state.client or has been released by
\* cleanup().
C36_NoOrphanedConnection ==
    (pc = "ui" /\ workers = {})
      => \A i \in Opened(clients) :
           \/ i = session_state.client
           \/ (clients[i].closed /\ i \notin Open(clients))

====
